---- MODULE Spec2Model ----
(***************************************************************************)
(* Model of the crash-to-segment pipeline of mt-dot-crash-data             *)
(* (merge_traffic.py: create_simplified_average_output and its helpers).   *)
(*                                                                         *)
(* Representation                                                          *)
(*   - a CSV string is a sequence of one-character strings; a missing CSV  *)
(*     field (pandas NaN in a dtype=str column) is the value NaN;          *)
(*   - Python None / float NaN of a numeric column is Null (the empty      *)
(*     tuple); a present number x is the one-element tuple <<x>>;          *)
(*   - a milepost is a whole number of thousandths of a mile (the MDT      *)
(*     tables carry three decimals), so "002+0.619" is <<2619>>;           *)
(*   - an AADT value is an exact rational <<n, d>> in lowest terms, d > 0. *)
(***************************************************************************)
EXTENDS Integers, Sequences, FiniteSets, TLC

Null == <<>>

NaN == <<"<NaN>">>

\* in place of a table: the file is not there (a value no table equals)
NoFile == <<[file |-> "absent"]>>

---------------------------------------------------------------------------
(* Bounds of the model *)

MaxSegs == 2

MaxCrashes == 2

NumExtraYears == 2

---------------------------------------------------------------------------
(* Strings *)

Digits == <<"0", "1", "2", "3", "4", "5", "6", "7", "8", "9">>

LowerAlpha == <<"a", "b", "c", "d", "e", "f", "g", "h", "i", "j", "k", "l", "m",
                "n", "o", "p", "q", "r", "s", "t", "u", "v", "w", "x", "y", "z">>

UpperAlpha == <<"A", "B", "C", "D", "E", "F", "G", "H", "I", "J", "K", "L", "M",
                "N", "O", "P", "Q", "R", "S", "T", "U", "V", "W", "X", "Y", "Z">>

\* the characters of the model in ASCII order
Ascii == <<" ", "+", "-", ".">> \o Digits \o UpperAlpha \o <<"_">> \o LowerAlpha

IsDigit(c) == \E i \in 1..Len(Digits) : Digits[i] = c

DigitVal(c) == (CHOOSE i \in 1..Len(Digits) : Digits[i] = c) - 1

Ord(c) == CHOOSE i \in 1..Len(Ascii) : Ascii[i] = c

UpperChar(c) ==
    IF \E i \in 1..Len(LowerAlpha) : LowerAlpha[i] = c
    THEN UpperAlpha[CHOOSE i \in 1..Len(LowerAlpha) : LowerAlpha[i] = c]
    ELSE c

\* str.upper()
upper(s) == [i \in 1..Len(s) |-> UpperChar(s[i])]

RECURSIVE lstrip(_, _)
\* str.lstrip(c)
lstrip(s, c) == IF s # <<>> /\ s[1] = c THEN lstrip(Tail(s), c) ELSE s

RECURSIVE rstrip(_, _)
\* str.rstrip(c)
rstrip(s, c) ==
    IF s # <<>> /\ s[Len(s)] = c THEN rstrip(SubSeq(s, 1, Len(s) - 1), c) ELSE s

\* str.strip(): whitespace off both ends
strip(s) == rstrip(lstrip(s, " "), " ")

RECURSIVE split(_, _)
\* str.split(sep) for a one-character separator: always at least one part
split(s, sep) ==
    IF \A i \in 1..Len(s) : s[i] # sep
    THEN <<s>>
    ELSE LET k == CHOOSE i \in 1..Len(s) :
                    s[i] = sep /\ \A j \in 1..(i - 1) : s[j] # sep
         IN  <<SubSeq(s, 1, k - 1)>> \o split(SubSeq(s, k + 1, Len(s)), sep)

\* Series.astype(str).str.strip().str.upper(): a missing field becomes "NAN"
NormalizeId(s) == IF s = NaN THEN <<"N", "A", "N">> ELSE upper(strip(s))

\* Series.str.strip().str.upper(): a missing field stays missing
NormalizeStr(s) == IF s = NaN THEN NaN ELSE upper(strip(s))

RECURSIVE StrLess(_, _)
\* Python's s < t on strings
StrLess(s, t) ==
    IF t = <<>> THEN FALSE
    ELSE IF s = <<>> THEN TRUE
    ELSE IF s[1] # t[1] THEN Ord(s[1]) < Ord(t[1])
    ELSE StrLess(Tail(s), Tail(t))

---------------------------------------------------------------------------
(* Numbers *)

RECURSIVE DigitsValue(_)
\* the integer a digit string denotes ("" is 0)
DigitsValue(s) ==
    IF s = <<>> THEN 0
    ELSE 10 * DigitsValue(SubSeq(s, 1, Len(s) - 1)) + DigitVal(s[Len(s)])

\* the first three decimals of a digit string, in thousandths
FracValue(s) ==
    LET d(i) == IF i <= Len(s) THEN DigitVal(s[i]) ELSE 0
    IN  100 * d(1) + 10 * d(2) + d(3)

\* Python float(s) on strings over sign, digits, '.', blanks and letters:
\* Null stands for ValueError, <<v>> for the value v in thousandths.
ParseFloat(s) ==
    LET t    == strip(s)
        sgn  == t # <<>> /\ t[1] \in {"-", "+"}
        u    == IF sgn THEN Tail(t) ELSE t
        dots == {i \in 1..Len(u) : u[i] = "."}
        ok   == /\ \A i \in 1..Len(u) : IsDigit(u[i]) \/ u[i] = "."
                /\ Cardinality(dots) <= 1
                /\ \E i \in 1..Len(u) : IsDigit(u[i])
        k    == IF dots = {} THEN Len(u) + 1 ELSE CHOOSE i \in dots : TRUE
        mag  == 1000 * DigitsValue(SubSeq(u, 1, k - 1))
                    + FracValue(SubSeq(u, k + 1, Len(u)))
    IN  IF ~ok THEN Null
        ELSE IF sgn /\ t[1] = "-" THEN <<0 - mag>> ELSE <<mag>>

parse_milepost(mp_str) ==
    IF mp_str = NaN THEN Null
    ELSE LET parts == split(mp_str, "+")
         IN  IF Len(parts) # 2 THEN Null
             ELSE LET z == lstrip(parts[1], "0")
                      a == ParseFloat(IF z = <<>> THEN <<"0">> ELSE z)
                      b == ParseFloat(parts[2])
                  IN  IF a = Null \/ b = Null THEN Null ELSE <<a[1] + b[1]>>

RECURSIVE Gcd(_, _)
Gcd(a, b) == IF b = 0 THEN a ELSE Gcd(b, a % b)

Abs(x) == IF x < 0 THEN 0 - x ELSE x

\* the rational n/d (d > 0) in lowest terms
Rat(n, d) == LET g == Gcd(Abs(n), d) IN <<n \div g, d \div g>>

\* pd.to_numeric(errors='coerce') of a CSV field: Null when it is not a number
to_numeric(s) ==
    IF s = NaN THEN Null
    ELSE LET v == ParseFloat(s) IN IF v = Null THEN Null ELSE Rat(v[1], 1000)

---------------------------------------------------------------------------
(* Exact rational arithmetic on <<n, d>> *)

RatAdd(p, q) == Rat(p[1] * q[2] + q[1] * p[2], p[2] * q[2])

RatMulInt(p, k) == Rat(p[1] * k, p[2])

RatDivInt(p, k) == Rat(p[1], p[2] * k)

\* a float that is infinite
Inf == <<"inf">>

\* float product: missing when a factor is missing
FloatMul(p, q) ==
    IF p = Null \/ q = Null THEN Null ELSE Rat(p[1] * q[1], p[2] * q[2])

\* float quotient as pandas computes it: missing when an operand is missing,
\* x / 0 is infinite for x # 0 and missing for x = 0
FloatDiv(p, q) ==
    IF p = Null \/ q = Null THEN Null
    ELSE IF q[1] = 0 THEN (IF p[1] = 0 THEN Null ELSE Inf)
    ELSE IF q[1] < 0 THEN Rat(0 - p[1] * q[2], p[2] * (0 - q[1]))
    ELSE Rat(p[1] * q[2], p[2] * q[1])

---------------------------------------------------------------------------
(* Segment catalog *)

BaseYear == 2023

Sep == <<"_">>

\* CORR_ID + '_' + CORR_MP + '_' + CORR_ENDMP + '_' + DEPT_ID on str columns:
\* a missing milepost field makes the whole key missing
SegmentKey(corr_id, corr_mp, corr_endmp, dept_id) ==
    IF corr_mp = NaN \/ corr_endmp = NaN THEN NaN
    ELSE corr_id \o Sep \o corr_mp \o Sep \o corr_endmp \o Sep \o dept_id

\* Series == value on keys: a missing key equals nothing
KeyEq(a, b) == a # NaN /\ b # NaN /\ a = b

LoadSegmentRow(r) ==
    LET corr == NormalizeId(r.CORR_ID)
        dept == NormalizeId(r.DEPT_ID)
    IN  [CORR_ID          |-> corr,
         DEPT_ID          |-> dept,
         CORR_MP          |-> r.CORR_MP,
         CORR_ENDMP       |-> r.CORR_ENDMP,
         TYC_AADT         |-> r.TYC_AADT,
         SEC_LNT_MI       |-> r.SEC_LNT_MI,
         SEGMENT_KEY      |-> SegmentKey(corr, r.CORR_MP, r.CORR_ENDMP, dept),
         CORR_MP_FLOAT    |-> parse_milepost(r.CORR_MP),
         CORR_ENDMP_FLOAT |-> parse_milepost(r.CORR_ENDMP)]

---------------------------------------------------------------------------
(* Route metadata *)
(* on_system_df is the table load_on_system_routes returns: Null when the  *)
(* file is not there; BEGIN/END REFERENCE POINT are numeric, in            *)
(* thousandths, Null where the cell does not parse.                        *)

IsAlpha(c) == \E i \in 1..Len(UpperAlpha) : UpperAlpha[i] = c \/ LowerAlpha[i] = c

\* route_id[:-1] if route_id and route_id[-1].isalpha() else route_id
RouteBase(route_id) ==
    IF route_id # <<>> /\ IsAlpha(route_id[Len(route_id)])
    THEN SubSeq(route_id, 1, Len(route_id) - 1)
    ELSE route_id

\* grouped_by_route: the rows of each route base, in table order
GroupedByRoute(on_system_df) ==
    [b \in {RouteBase(NormalizeId(on_system_df[i].ROUTE_ID)) :
                i \in 1..Len(on_system_df)} |->
        SelectSeq(on_system_df,
                  LAMBDA r : RouteBase(NormalizeId(r.ROUTE_ID)) = b)]

\* grouped_by_route.get(corr_id) or grouped_by_route.get(dept_id)
Candidates(grouped_by_route, row) ==
    IF NormalizeId(row.CORR_ID) \in DOMAIN grouped_by_route
    THEN grouped_by_route[NormalizeId(row.CORR_ID)]
    ELSE IF NormalizeId(row.DEPT_ID) \in DOMAIN grouped_by_route
    THEN grouped_by_route[NormalizeId(row.DEPT_ID)]
    ELSE <<>>

\* b <= mid <= e for mid = (start_mp + end_mp) / 2.0, both ends present
CoversMid(candidate, start_mp, end_mp) ==
    /\ candidate.BEGIN_REFERENCE_POINT # Null
    /\ candidate.END_REFERENCE_POINT # Null
    /\ 2 * candidate.BEGIN_REFERENCE_POINT[1] <= start_mp[1] + end_mp[1]
    /\ start_mp[1] + end_mp[1] <= 2 * candidate.END_REFERENCE_POINT[1]

\* the candidates whose range covers the midpoint, in group order
Covering(candidates, start_mp, end_mp) ==
    IF start_mp = Null \/ end_mp = Null THEN <<>>
    ELSE SelectSeq(candidates, LAMBDA c : CoversMid(c, start_mp, end_mp))

\* mutant: without a milepost match the segment gets no metadata
FindWithoutFallback(candidates, covering) ==
    IF covering # <<>> THEN <<covering[1]>> ELSE Null

\* the end of find_metadata_match: the first covering candidate, else the
\* first candidate, else None (Null)
FindAmong(candidates, covering) ==
    IF candidates = <<>> THEN Null
    ELSE IF covering # <<>> THEN <<covering[1]>>
    ELSE <<candidates[1]>>

find_metadata_match(grouped_by_route, row) ==
    FindAmong(Candidates(grouped_by_route, row),
              Covering(Candidates(grouped_by_route, row),
                       parse_milepost(row.CORR_MP), parse_milepost(row.CORR_ENDMP)))

\* the three columns of a row: None without a match, the match's cells
\* otherwise (the table carries the columns 'ROUTE NAME' and 'SIGNED ROUTE')
WithMetadata(row, match) ==
    [ROUTE_NAME   |-> IF match = Null THEN Null ELSE match[1].ROUTE_NAME,
     SIGNED_ROUTE |-> IF match = Null THEN Null ELSE match[1].SIGNED_ROUTE,
     SYSTEM       |-> IF match = Null THEN Null ELSE match[1].SYSTEM] @@ row

enrich_segments_with_metadata(segments_df, on_system_df) ==
    IF on_system_df = Null \/ on_system_df = <<>>
    THEN [i \in 1..Len(segments_df) |-> WithMetadata(segments_df[i], Null)]
    ELSE [i \in 1..Len(segments_df) |->
            WithMetadata(segments_df[i],
                         find_metadata_match(GroupedByRoute(on_system_df),
                                             segments_df[i]))]

load_base_segments_2023(csv, on_system_df) ==
    enrich_segments_with_metadata([i \in 1..Len(csv) |-> LoadSegmentRow(csv[i])],
                                  on_system_df)

---------------------------------------------------------------------------
(* Multi-year averager *)

\* the first statements of calculate_averaged_traffic: numeric AADT, one year
AveragingProlog(df) ==
    [i \in 1..Len(df) |->
        [CORR_ID          |-> df[i].CORR_ID,
         DEPT_ID          |-> df[i].DEPT_ID,
         CORR_MP          |-> df[i].CORR_MP,
         CORR_ENDMP       |-> df[i].CORR_ENDMP,
         ROUTE_NAME       |-> df[i].ROUTE_NAME,
         SIGNED_ROUTE     |-> df[i].SIGNED_ROUTE,
         SYSTEM           |-> df[i].SYSTEM,
         SEGMENT_KEY      |-> df[i].SEGMENT_KEY,
         CORR_MP_FLOAT    |-> df[i].CORR_MP_FLOAT,
         CORR_ENDMP_FLOAT |-> df[i].CORR_ENDMP_FLOAT,
         SEC_LNT_MI       |-> df[i].SEC_LNT_MI,
         TYC_AADT         |-> to_numeric(df[i].TYC_AADT),
         YEARS_WITH_DATA  |-> 1]]

\* one year's table as read inside the loop: key and numeric AADT per row
YearFrame(csv) ==
    [i \in 1..Len(csv) |->
        [SEGMENT_KEY |-> SegmentKey(NormalizeId(csv[i].CORR_ID), csv[i].CORR_MP,
                                    csv[i].CORR_ENDMP, NormalizeId(csv[i].DEPT_ID)),
         TYC_AADT    |-> to_numeric(csv[i].TYC_AADT)]]

\* year_df[year_df['SEGMENT_KEY'] == segment_key]
YearMatches(year_df, segment_key) ==
    SelectSeq(year_df, LAMBDA r : KeyEq(r.SEGMENT_KEY, segment_key))

\* mutant: the running mean is not weighted by the years already averaged
NaiveAverage(current_aadt, current_years, year_aadt) ==
    RatDivInt(RatAdd(current_aadt, year_aadt), 2)

\* new_total / new_years
NewAverage(current_aadt, current_years, year_aadt) ==
    RatDivInt(RatAdd(RatMulInt(current_aadt, current_years), year_aadt),
              current_years + 1)

\* mutant: the average is updated but the year is not counted
AverageRowNoCount(base_row, year_df) ==
    LET year_matches == YearMatches(year_df, base_row.SEGMENT_KEY)
    IN  IF /\ Len(year_matches) > 0
           /\ year_matches[1].TYC_AADT # Null
           /\ base_row.TYC_AADT # Null
        THEN [base_row EXCEPT
                !.TYC_AADT = NewAverage(base_row.TYC_AADT,
                                        base_row.YEARS_WITH_DATA,
                                        year_matches[1].TYC_AADT)]
        ELSE base_row

\* mutant: a segment without an average adopts the first year that has one
AverageRowRecover(base_row, year_df) ==
    LET year_matches == YearMatches(year_df, base_row.SEGMENT_KEY)
    IN  IF Len(year_matches) > 0 /\ year_matches[1].TYC_AADT # Null
        THEN IF base_row.TYC_AADT # Null
             THEN [base_row EXCEPT
                     !.TYC_AADT = NewAverage(base_row.TYC_AADT,
                                             base_row.YEARS_WITH_DATA,
                                             year_matches[1].TYC_AADT),
                     !.YEARS_WITH_DATA = base_row.YEARS_WITH_DATA + 1]
             ELSE [base_row EXCEPT !.TYC_AADT = year_matches[1].TYC_AADT]
        ELSE base_row

\* one iteration of the inner loop over base_segments_df
AverageRow(base_row, year_df) ==
    LET year_matches == YearMatches(year_df, base_row.SEGMENT_KEY)
    IN  IF /\ Len(year_matches) > 0
           /\ year_matches[1].TYC_AADT # Null
           /\ base_row.TYC_AADT # Null
        THEN [base_row EXCEPT
                !.TYC_AADT = NewAverage(base_row.TYC_AADT,
                                        base_row.YEARS_WITH_DATA,
                                        year_matches[1].TYC_AADT),
                !.YEARS_WITH_DATA = base_row.YEARS_WITH_DATA + 1]
        ELSE base_row

AverageYearFrame(df, year_df) == [i \in 1..Len(df) |-> AverageRow(df[i], year_df)]

---------------------------------------------------------------------------
(* Corridor index and crash matcher *)

\* a metadata column is copied when pd.notna; Null is a key that is not set
Extra(v) == IF v = Null \/ v = NaN THEN Null ELSE v

Section(row) ==
    [SEGMENT_KEY      |-> row.SEGMENT_KEY,
     CORR_ID          |-> row.CORR_ID,
     DEPT_ID          |-> row.DEPT_ID,
     TYC_AADT         |-> row.TYC_AADT,
     CORR_MP          |-> row.CORR_MP,
     CORR_ENDMP       |-> row.CORR_ENDMP,
     CORR_MP_FLOAT    |-> row.CORR_MP_FLOAT,
     CORR_ENDMP_FLOAT |-> row.CORR_ENDMP_FLOAT,
     ROUTE_NAME       |-> Extra(row.ROUTE_NAME),
     SIGNED_ROUTE     |-> Extra(row.SIGNED_ROUTE),
     SYSTEM           |-> Extra(row.SYSTEM)]

\* index.setdefault(corr_id, []).append(section)
AddSection(index, corr_id, section) ==
    IF corr_id \in DOMAIN index
    THEN [index EXCEPT ![corr_id] = Append(@, section)]
    ELSE index @@ (corr_id :> <<section>>)

RECURSIVE IndexRows(_, _)
IndexRows(df, index) ==
    IF df = <<>> THEN index
    ELSE IndexRows(Tail(df), AddSection(index, Head(df).CORR_ID, Section(Head(df))))

build_corridor_index(segments_df) == IndexRows(segments_df, <<>>)

\* the crash table as prepared before the matching loop
LoadCrashes(csv) ==
    [i \in 1..Len(csv) |->
        [CORRIDOR        |-> NormalizeStr(csv[i].CORRIDOR),
         REF_POINT       |-> csv[i].REF_POINT,
         REF_POINT_FLOAT |-> parse_milepost(csv[i].REF_POINT)]]

\* mutant: the range is taken between its smaller and its larger end
ContainsUnordered(section, ref_point) ==
    /\ section.CORR_MP_FLOAT # Null
    /\ section.CORR_ENDMP_FLOAT # Null
    /\ \/ /\ section.CORR_MP_FLOAT[1] <= ref_point
          /\ ref_point <= section.CORR_ENDMP_FLOAT[1]
       \/ /\ section.CORR_ENDMP_FLOAT[1] <= ref_point
          /\ ref_point <= section.CORR_MP_FLOAT[1]

Contains(section, ref_point) ==
    /\ section.CORR_MP_FLOAT # Null
    /\ section.CORR_ENDMP_FLOAT # Null
    /\ section.CORR_MP_FLOAT[1] <= ref_point
    /\ ref_point <= section.CORR_ENDMP_FLOAT[1]

MatchOut(section, corridor) ==
    [SEGMENT_KEY |-> section.SEGMENT_KEY,
     CORRIDOR    |-> corridor,
     CORR_ID     |-> section.CORR_ID,
     DEPT_ID     |-> section.DEPT_ID,
     CORR_MP     |-> section.CORR_MP,
     CORR_ENDMP  |-> section.CORR_ENDMP,
     TYC_AADT    |-> section.TYC_AADT,
     CRASHES     |-> 1,
     ROUTE_NAME  |-> section.ROUTE_NAME,
     SIGNED_ROUTE |-> section.SIGNED_ROUTE,
     SYSTEM      |-> section.SYSTEM]

RECURSIVE ScanSections(_, _, _)
\* the for loop over corridor_index[corridor]: Null is None
ScanSections(sections, corridor, ref_point) ==
    IF sections = <<>> THEN Null
    ELSE IF Contains(Head(sections), ref_point)
         THEN <<MatchOut(Head(sections), corridor)>>
         ELSE ScanSections(Tail(sections), corridor, ref_point)

Reverse(s) == [i \in 1..Len(s) |-> s[Len(s) + 1 - i]]

\* mutant: the scan runs from the end of the corridor's list
match_last_section(crash, index) ==
    IF crash.REF_POINT_FLOAT = Null \/ crash.CORRIDOR \notin DOMAIN index
    THEN Null
    ELSE ScanSections(Reverse(index[crash.CORRIDOR]), crash.CORRIDOR,
                      crash.REF_POINT_FLOAT[1])

\* mutant: a crash on an unindexed corridor is scanned against another corridor
match_any_corridor(crash, index) ==
    IF crash.REF_POINT_FLOAT = Null \/ DOMAIN index = {}
    THEN Null
    ELSE LET c == IF crash.CORRIDOR \in DOMAIN index THEN crash.CORRIDOR
                  ELSE CHOOSE k \in DOMAIN index : TRUE
         IN  ScanSections(index[c], crash.CORRIDOR, crash.REF_POINT_FLOAT[1])

match_crash_to_section(crash, index) ==
    IF crash.REF_POINT_FLOAT = Null \/ crash.CORRIDOR \notin DOMAIN index
    THEN Null
    ELSE ScanSections(index[crash.CORRIDOR], crash.CORRIDOR, crash.REF_POINT_FLOAT[1])

---------------------------------------------------------------------------
(* Aggregator *)

RECURSIVE GroupCrashesFirst(_, _)
\* mutant: 'first' instead of 'sum' as the aggregate of CRASHES
GroupCrashesFirst(matches, grouped) ==
    IF matches = <<>> THEN grouped
    ELSE LET m == Head(matches)
         IN  IF m.SEGMENT_KEY = NaN
                \/ \E i \in 1..Len(grouped) : grouped[i].SEGMENT_KEY = m.SEGMENT_KEY
             THEN GroupCrashesFirst(Tail(matches), grouped)
             ELSE GroupCrashesFirst(Tail(matches),
                      Append(grouped, [SEGMENT_KEY |-> m.SEGMENT_KEY,
                                       CRASHES     |-> m.CRASHES]))

RECURSIVE GroupCrashes(_, _)
\* groupby('SEGMENT_KEY').agg({'CRASHES': 'sum'}): one row per key, missing
\* keys dropped
GroupCrashes(matches, grouped) ==
    IF matches = <<>> THEN grouped
    ELSE LET m == Head(matches)
             hit == {i \in 1..Len(grouped) : grouped[i].SEGMENT_KEY = m.SEGMENT_KEY}
         IN  IF m.SEGMENT_KEY = NaN THEN GroupCrashes(Tail(matches), grouped)
             ELSE IF hit = {}
             THEN GroupCrashes(Tail(matches),
                      Append(grouped, [SEGMENT_KEY |-> m.SEGMENT_KEY,
                                       CRASHES     |-> m.CRASHES]))
             ELSE GroupCrashes(Tail(matches),
                      [i \in 1..Len(grouped) |->
                          IF i \in hit
                          THEN [grouped[i] EXCEPT !.CRASHES = @ + m.CRASHES]
                          ELSE grouped[i]])

WithCrashes(row, crashes) ==
    [CORR_ID          |-> row.CORR_ID,
     DEPT_ID          |-> row.DEPT_ID,
     CORR_MP          |-> row.CORR_MP,
     CORR_ENDMP       |-> row.CORR_ENDMP,
     ROUTE_NAME       |-> row.ROUTE_NAME,
     SIGNED_ROUTE     |-> row.SIGNED_ROUTE,
     SYSTEM           |-> row.SYSTEM,
     SEGMENT_KEY      |-> row.SEGMENT_KEY,
     CORR_MP_FLOAT    |-> row.CORR_MP_FLOAT,
     CORR_ENDMP_FLOAT |-> row.CORR_ENDMP_FLOAT,
     TYC_AADT         |-> row.TYC_AADT,
     YEARS_WITH_DATA  |-> row.YEARS_WITH_DATA,
     SEC_LNT_MI       |-> row.SEC_LNT_MI,
     TOTAL_CRASHES    |-> crashes]

RECURSIVE InnerMerge(_, _)
\* mutant: how='inner', a left row without a partner is dropped
InnerMerge(left, right) ==
    IF left = <<>> THEN <<>>
    ELSE LET l == Head(left)
             partners == SelectSeq(right, LAMBDA r : r.SEGMENT_KEY = l.SEGMENT_KEY)
         IN  [i \in 1..Len(partners) |-> WithCrashes(l, partners[i].CRASHES)]
             \o InnerMerge(Tail(left), right)

RECURSIVE LeftMerge(_, _)
\* complete_df.merge(crash_grouped, on='SEGMENT_KEY', how='left') followed by
\* TOTAL_CRASHES = CRASHES.fillna(0): one output row per pair of equal keys,
\* and one row with 0 for a left row without a partner
LeftMerge(left, right) ==
    IF left = <<>> THEN <<>>
    ELSE LET l == Head(left)
             partners == SelectSeq(right, LAMBDA r : r.SEGMENT_KEY = l.SEGMENT_KEY)
         IN  (IF partners = <<>>
              THEN <<WithCrashes(l, 0)>>
              ELSE [i \in 1..Len(partners) |-> WithCrashes(l, partners[i].CRASHES)])
             \o LeftMerge(Tail(left), right)

\* complete_df after the crash counts are merged in
AggregateCrashes(segments_df, matches) ==
    IF matches = <<>>
    THEN [i \in 1..Len(segments_df) |-> WithCrashes(segments_df[i], 0)]
    ELSE LeftMerge(segments_df, GroupCrashes(matches, <<>>))

\* complete_df['SEC_LNT_MI'] * complete_df['TYC_AADT']
MilesDriven(sec_lnt_mi, tyc_aadt) == FloatMul(sec_lnt_mi, tyc_aadt)

\* mutant: the per-segment count of averaged years as the divisor
AvgCrashesPerSegmentYears(row, total_years) ==
    Rat(row.TOTAL_CRASHES, row.YEARS_WITH_DATA)

\* complete_df['TOTAL_CRASHES'] / total_years
AvgCrashesOf(row, total_years) == Rat(row.TOTAL_CRASHES, total_years)

\* mutant: the ratio is taken on every row
RatioUnmasked(value, avg_crashes) == FloatDiv(value, avg_crashes)

\* a column that starts as None and is assigned value / AVG_CRASHES on the
\* rows of mask_crashes
RatioPerAccident(value, avg_crashes) ==
    IF avg_crashes[1] > 0 THEN FloatDiv(value, avg_crashes) ELSE Null

\* mutant: the rates are taken against the total, not the yearly, crashes
DerivedMetricsOnTotal(row, total_years) ==
    LET sec == to_numeric(row.SEC_LNT_MI)
        md  == MilesDriven(sec, row.TYC_AADT)
        avg == AvgCrashesOf(row, total_years)
        tot == Rat(row.TOTAL_CRASHES, 1)
    IN  [CORR_ID          |-> row.CORR_ID,
         DEPT_ID          |-> row.DEPT_ID,
         CORR_MP          |-> row.CORR_MP,
         CORR_ENDMP       |-> row.CORR_ENDMP,
         ROUTE_NAME       |-> row.ROUTE_NAME,
         SIGNED_ROUTE     |-> row.SIGNED_ROUTE,
         SYSTEM           |-> row.SYSTEM,
         SEGMENT_KEY      |-> row.SEGMENT_KEY,
         CORR_MP_FLOAT    |-> row.CORR_MP_FLOAT,
         CORR_ENDMP_FLOAT |-> row.CORR_ENDMP_FLOAT,
         TYC_AADT         |-> row.TYC_AADT,
         YEARS_WITH_DATA  |-> row.YEARS_WITH_DATA,
         TOTAL_CRASHES    |-> row.TOTAL_CRASHES,
         SEC_LNT_MI       |-> sec,
         MILES_DRIVEN     |-> md,
         AVG_CRASHES      |-> avg,
         CARS_PER_ACC     |-> RatioPerAccident(row.TYC_AADT, tot),
         MILES_PER_ACC    |-> RatioPerAccident(md, tot)]

\* step 7 of create_simplified_average_output on one row
DerivedMetrics(row, total_years) ==
    LET sec == to_numeric(row.SEC_LNT_MI)
        md  == MilesDriven(sec, row.TYC_AADT)
        avg == AvgCrashesOf(row, total_years)
    IN  [CORR_ID          |-> row.CORR_ID,
         DEPT_ID          |-> row.DEPT_ID,
         CORR_MP          |-> row.CORR_MP,
         CORR_ENDMP       |-> row.CORR_ENDMP,
         ROUTE_NAME       |-> row.ROUTE_NAME,
         SIGNED_ROUTE     |-> row.SIGNED_ROUTE,
         SYSTEM           |-> row.SYSTEM,
         SEGMENT_KEY      |-> row.SEGMENT_KEY,
         CORR_MP_FLOAT    |-> row.CORR_MP_FLOAT,
         CORR_ENDMP_FLOAT |-> row.CORR_ENDMP_FLOAT,
         TYC_AADT         |-> row.TYC_AADT,
         YEARS_WITH_DATA  |-> row.YEARS_WITH_DATA,
         TOTAL_CRASHES    |-> row.TOTAL_CRASHES,
         SEC_LNT_MI       |-> sec,
         MILES_DRIVEN     |-> md,
         AVG_CRASHES      |-> avg,
         CARS_PER_ACC     |-> RatioPerAccident(row.TYC_AADT, avg),
         MILES_PER_ACC    |-> RatioPerAccident(md, avg)]

CalculateMetrics(df, total_years) ==
    [i \in 1..Len(df) |-> DerivedMetrics(df[i], total_years)]

\* sort_values on CORR_MP (the CORRIDOR column is constant): missing values last
MpBefore(a, b) == a # NaN /\ (b = NaN \/ StrLess(a, b))

\* every order sort_values may leave the rows in (ties in any order)
SortedOrders(df) ==
    LET n == Len(df)
        perms == {f \in [1..n -> 1..n] : \A i, j \in 1..n : i # j => f[i] # f[j]}
    IN  {[i \in 1..n |-> df[f[i]]] : f \in
            {g \in perms : \A i, j \in 1..n :
                i < j => ~MpBefore(df[g[j]].CORR_MP, df[g[i]].CORR_MP)}}

\* the numbers printed under "FINAL RESULTS"
FinalResults(out) ==
    [total_segments           |-> Len(out),
     segments_with_crashes    |-> Cardinality({i \in 1..Len(out) : out[i].TOTAL_CRASHES > 0}),
     segments_without_crashes |-> Cardinality({i \in 1..Len(out) : out[i].TOTAL_CRASHES = 0})]

---------------------------------------------------------------------------
(* The run of create_simplified_average_output as a state machine *)

VARIABLES
    files,              \* year |-> rows of TYC_<year>.csv, for the files that exist
    crash_csv,          \* rows of the crash CSV, NoFile when it is absent
    years,              \* the years argument
    on_system_df,       \* the route-metadata table, Null when the file is absent
    tyc_geojson,        \* year |-> features of TYC_<year>.json, for the
                        \* collections that exist and can be read
    pc,                 \* "load", "average", "match", "done", "aborted" or
                        \* "raised"
    base_segments_df,   \* the segment table, mutated in place by the averager
    yi,                 \* position in years of the next year to average
    corridor_index,     \* corridor |-> sections in row order
    crash_df,           \* the prepared crash table
    ci,                 \* position of the next crash row
    matched_sections,   \* one match per matched crash, in crash order
    output_df,          \* the rows written to merged_traffic_average.csv
    final_results,      \* the printed summary, <<>> until printed
    mp_str,             \* parse_milepost: the argument of the call
    parsed,             \* parse_milepost: implementation |-> what its call gave
    geometry,           \* point_on_linestring: the geometry argument
    prefer,             \* point_on_linestring: 'midpoint' or 'start'
    point,              \* point_on_linestring: <<>> before the call, then <<result>>
    manual_dir,         \* analyze_trips: the files of manual-segments
    results,            \* analyze_trips: what process_all_files returned
    csv_out,            \* analyze_trips: per_car.csv, per_mile.csv, per_vmt.csv
    json_out,           \* analyze_trips: the top_N.json files
    tpc,                \* analyze_trips: "idle", "start", "processed", "written",
                        \* "merged", "compared" or "aborted"
    per_100m_vmt,       \* new_merge_traffic: PER_100M_VMT as written, per route
    export_segments_df, \* route export: the segment table the partitions read
    crashes_df,         \* route export: the matched crash records, Null if none
    geojson_map,        \* route export: SEGMENT_KEY |-> its feature
    unique_routes,      \* route export: the route names, one partition each
    max_workers,        \* route export: the size of the thread pool
    fail_env,           \* route export: the paths that cannot be written and the
                        \* partitions whose worker raises
    futures,            \* route export: route |-> position of its worker
    fs,                 \* route export: path |-> the file under output/all_roads
    writes,             \* route export: every <<path, route>> written so far
    log,                \* route export: the [ERROR] lines printed
    collected,          \* route export: the futures as_completed has yielded
    epc,                \* route export: "idle", "geo", "start", "fanout", "done",
                        \* "rendered"
    render,             \* new_merge_traffic: the point and line collections
    new_base_df         \* new_merge_traffic: <<>> before its
                        \* calculate_averaged_traffic, then <<the table>>

parse_vars == <<mp_str, parsed>>

geo_vars == <<geometry, prefer, point>>

trip_vars == <<manual_dir, results, csv_out, json_out, tpc, per_100m_vmt>>

export_vars == <<export_segments_df, crashes_df, geojson_map, unique_routes,
                 max_workers, fail_env, futures, fs, writes, log, collected, epc,
                 render>>

new_vars == <<new_base_df>>

more_vars == <<export_vars, new_vars>>

\* the state of the programs other than create_simplified_average_output
others == <<parse_vars, geo_vars, trip_vars, more_vars>>

merge_vars == <<files, crash_csv, years, on_system_df, tyc_geojson, pc, base_segments_df, yi, corridor_index,
                crash_df, ci, matched_sections, output_df, final_results>>

vars == <<merge_vars, others>>

ParseIdle == mp_str = NaN /\ parsed = <<>>

GeoIdle == geometry = Null /\ prefer = "start" /\ point = <<>>

TripsIdle ==
    /\ manual_dir = <<>>
    /\ results = <<>>
    /\ csv_out = <<>>
    /\ json_out = <<>>
    /\ tpc = "idle"
    /\ per_100m_vmt = <<>>

ExportIdle ==
    /\ export_segments_df = <<>>
    /\ crashes_df = Null
    /\ geojson_map = <<>>
    /\ unique_routes = <<>>
    /\ max_workers = 0
    /\ fail_env = <<>>
    /\ futures = <<>>
    /\ fs = <<>>
    /\ writes = {}
    /\ log = {}
    /\ collected = {}
    /\ epc = "idle"
    /\ render = <<>>

NewIdle == new_base_df = <<>>

\* the programs added below, all but g, not started
MoreIdleBut(g) ==
    /\ (g = "export" \/ ExportIdle)
    /\ (g = "new" \/ NewIdle)

MoreIdle == MoreIdleBut("none")

\* create_simplified_average_output not started
MergeIdle ==
    /\ files = <<>>
    /\ crash_csv = <<>>
    /\ years = <<>>
    /\ on_system_df = Null
    /\ tyc_geojson = <<>>
    /\ pc = "idle"
    /\ base_segments_df = <<>>
    /\ yi = 1
    /\ corridor_index = <<>>
    /\ crash_df = <<>>
    /\ ci = 1
    /\ matched_sections = <<>>
    /\ output_df = <<>>
    /\ final_results = <<>>

inputs == <<files, crash_csv, years, on_system_df, tyc_geojson>>

LoadBaseMissing ==
    /\ pc = "load"
    /\ BaseYear \notin DOMAIN files
    /\ pc' = "aborted"
    /\ UNCHANGED <<others, inputs, base_segments_df, yi, corridor_index, crash_df, ci,
                   matched_sections, output_df, final_results>>

LoadBase ==
    /\ pc = "load"
    /\ BaseYear \in DOMAIN files
    /\ base_segments_df' = AveragingProlog(load_base_segments_2023(files[BaseYear], on_system_df))
    /\ yi' = 2
    /\ pc' = "average"
    /\ UNCHANGED <<others, inputs, corridor_index, crash_df, ci, matched_sections,
                   output_df, final_results>>

\* mutant: a missing year file ends the loop over the years
AverageYearMissingBreak ==
    /\ pc = "average"
    /\ yi <= Len(years)
    /\ years[yi] \notin DOMAIN files
    /\ yi' = Len(years) + 1
    /\ UNCHANGED <<others, inputs, pc, base_segments_df, corridor_index, crash_df, ci,
                   matched_sections, output_df, final_results>>

AverageYearMissing ==
    /\ pc = "average"
    /\ yi <= Len(years)
    /\ years[yi] \notin DOMAIN files
    /\ yi' = yi + 1
    /\ UNCHANGED <<others, inputs, pc, base_segments_df, corridor_index, crash_df, ci,
                   matched_sections, output_df, final_results>>

AverageYear ==
    /\ pc = "average"
    /\ yi <= Len(years)
    /\ years[yi] \in DOMAIN files
    /\ base_segments_df' = AverageYearFrame(base_segments_df, YearFrame(files[years[yi]]))
    /\ yi' = yi + 1
    /\ UNCHANGED <<others, inputs, pc, corridor_index, crash_df, ci, matched_sections,
                   output_df, final_results>>

\* pd.read_csv(crash_csv) on a path that does not exist raises: the index is
\* built, nothing is matched or written
ReadCrashesMissing ==
    /\ pc = "average"
    /\ yi > Len(years)
    /\ crash_csv = NoFile
    /\ corridor_index' = build_corridor_index(base_segments_df)
    /\ pc' = "raised"
    /\ UNCHANGED <<others, inputs, base_segments_df, yi, crash_df, ci,
                   matched_sections, output_df, final_results>>

BuildIndex ==
    /\ pc = "average"
    /\ yi > Len(years)
    /\ crash_csv # NoFile
    /\ corridor_index' = build_corridor_index(base_segments_df)
    /\ crash_df' = LoadCrashes(crash_csv)
    /\ ci' = 1
    /\ pc' = "match"
    /\ UNCHANGED <<others, inputs, base_segments_df, yi, matched_sections, output_df,
                   final_results>>

MatchCrash ==
    /\ pc = "match"
    /\ ci <= Len(crash_df)
    /\ LET match == match_crash_to_section(crash_df[ci], corridor_index)
       IN  matched_sections' = IF match # Null
                               THEN Append(matched_sections, match[1])
                               ELSE matched_sections
    /\ ci' = ci + 1
    /\ UNCHANGED <<others, inputs, pc, base_segments_df, yi, corridor_index, crash_df,
                   output_df, final_results>>

Aggregate ==
    /\ pc = "match"
    /\ ci > Len(crash_df)
    /\ output_df' \in SortedOrders(
            CalculateMetrics(AggregateCrashes(base_segments_df, matched_sections),
                             Len(years)))
    /\ final_results' = FinalResults(output_df')
    /\ pc' = "done"
    /\ UNCHANGED <<others, inputs, base_segments_df, yi, corridor_index, crash_df, ci,
                   matched_sections>>

Next ==
    \/ LoadBaseMissing
    \/ LoadBase
    \/ AverageYearMissing
    \/ AverageYear
    \/ BuildIndex
    \/ MatchCrash
    \/ Aggregate

---------------------------------------------------------------------------
(* Inputs *)

SeqsUpTo(S, n) == UNION {[1..k -> S] : k \in 0..n}

ExtraYears == {BaseYear - k : k \in 1..NumExtraYears}

\* the years argument: the baseline year first, the other years in any order
YearOrders ==
    {<<BaseYear>> \o o : o \in
        {f \in [1..NumExtraYears -> ExtraYears] :
            \A i, j \in 1..NumExtraYears : i # j => f[i] # f[j]}}

\* a run about to start: the files f, the crash table c, the years y, the
\* metadata table o and the geometry collections g
StartWith(f, c, y, o, g) ==
    /\ files = f
    /\ crash_csv = c
    /\ years = y
    /\ on_system_df = o
    /\ tyc_geojson = g
    /\ pc = "load"
    /\ base_segments_df = <<>>
    /\ yi = 1
    /\ corridor_index = <<>>
    /\ crash_df = <<>>
    /\ ci = 1
    /\ matched_sections = <<>>
    /\ output_df = <<>>
    /\ final_results = <<>>
    /\ ParseIdle
    /\ GeoIdle
    /\ TripsIdle
    /\ MoreIdle

\* a run without the optional inputs
Start(f, c, y) == StartWith(f, c, y, Null, <<>>)

CrashRow(corr, ref) == [CORRIDOR |-> corr, REF_POINT |-> ref]

mp2 == <<"0", "0", "2", "+", "0", ".", "0">>

mp3 == <<"3", "+", "0">>

mp4 == <<"4", "+", "0">>

mpBad == <<"x">>

\* the SEC_LNT_MI cell of a row: a length, a zero, an empty cell or a word
SecLntMi(mp, endmp) ==
    IF mp = mp2 /\ endmp = mp3 THEN <<"2">>
    ELSE IF mp = mp3 /\ endmp = mp4 THEN <<"0">>
    ELSE IF mp = mp2 /\ endmp = mp4 THEN <<"1", ".", "5">>
    ELSE IF mp = mp4 THEN NaN
    ELSE <<"x">>

SegRow(corr, mp, endmp, aadt) ==
    [CORR_ID |-> corr, DEPT_ID |-> <<"p", "-", "1">>, CORR_MP |-> mp,
     CORR_ENDMP |-> endmp, TYC_AADT |-> aadt, SEC_LNT_MI |-> SecLntMi(mp, endmp)]

\* Matching inputs: segments of one corridor whose ranges touch, overlap, are
\* reversed or do not parse, a segment of a second corridor, and crashes on
\* and off the indexed corridors, with and without a reference point.
MatchRanges ==
    {<<mp2, mp3>>, <<mp3, mp4>>, <<mp2, mp4>>, <<mp4, mp2>>, <<mpBad, mp3>>}

MatchSegRows ==
    {SegRow(<<"A">>, r[1], r[2], <<"1", "0", "0">>) : r \in MatchRanges}
        \cup {SegRow(<<"b", " ">>, mp2, mp4, <<"1", "0", "0">>)}

MatchCrashRows ==
    {CrashRow(<<" ", "a">>, mp3),
     CrashRow(<<" ", "a">>, <<"0", "0", "2", "+", "0", ".", "5", "0", "0">>),
     CrashRow(<<"B">>, mp3),
     CrashRow(<<" ", "a">>, NaN)}

\* the years argument as the program passes it: descending from the baseline
DefaultYears == <<BaseYear>> \o [k \in 1..NumExtraYears |-> BaseYear - k]

\* the other years' files of a matching run: the first extra year repeats the
\* baseline rows with another count, the remaining years have no file
MatchYearFiles(base) ==
    (BaseYear - 1) :> [i \in 1..Len(base) |-> [base[i] EXCEPT !.TYC_AADT = <<"3", "0", "0">>]]

Init ==
    \/ \E base \in SeqsUpTo(MatchSegRows, MaxSegs),
          c \in SeqsUpTo(MatchCrashRows, MaxCrashes) :
            Start((BaseYear :> base) @@ MatchYearFiles(base), c, DefaultYears)
    \/ \E c \in SeqsUpTo(MatchCrashRows, 1) :
            Start(MatchYearFiles(<<>>), c, DefaultYears)

Spec == Init /\ [][Next]_vars

\* Averaging inputs: two segment keys; a baseline table whose counts are
\* numbers or not, with or without a repeated key; per extra year no file, or
\* a table where a key is absent, has that year's count, has no count, or
\* stands in two rows with different counts.
AvgBase(r, a) == SegRow(<<"A">>, r[1], r[2], a)

AvgBaseTables ==
    LET k1 == <<mp2, mp3>>
        k2 == <<mp3, mp4>>
        n  == <<"1", "0", "0">>
        x  == <<"x">>
    IN  {<<>>,
         <<AvgBase(k1, n)>>,
         <<AvgBase(k1, x)>>,
         <<AvgBase(k1, n), AvgBase(k2, n)>>,
         <<AvgBase(k1, x), AvgBase(k2, n)>>,
         <<AvgBase(k1, x), AvgBase(k1, n)>>}

YearCount(year) == <<Digits[2 * (BaseYear - year) + 1], "0", "0">>

AvgYearTables(year) ==
    LET r1  == SegRow(<<"a">>, mp2, mp3, YearCount(year))
        r1n == SegRow(<<"a">>, mp2, mp3, NaN)
        r1b == SegRow(<<"a">>, mp2, mp3, <<"5", "0">>)
        r2  == SegRow(<<"a">>, mp3, mp4, YearCount(year))
    IN  {<<>>, <<r1>>, <<r1n>>, <<r2>>, <<r1, r2>>, <<r1n, r1>>, <<r1, r1n>>,
         <<r1, r1b>>}

\* the files of the years in ys: any subset exists, each with one of its tables
AvgYearFiles(ys) ==
    UNION {{f \in [D -> UNION {AvgYearTables(y) : y \in D}] :
                \A y \in D : f[y] \in AvgYearTables(y)}
            : D \in SUBSET ys}

AvgCrashes == <<CrashRow(<<" ", "a">>, mp3)>>

InitAvg ==
    \/ \E base \in AvgBaseTables, f \in AvgYearFiles(ExtraYears), y \in YearOrders :
            Start((BaseYear :> base) @@ f, AvgCrashes, y)
    \/ Start(<<>>, AvgCrashes, DefaultYears)

SpecAvg == InitAvg /\ [][Next]_vars

---------------------------------------------------------------------------
(* Reference notions of the properties, stated on the tables themselves *)

\* the catalog rows on the crash's corridor whose inclusive range holds crash j
Containing(j) ==
    {i \in 1..Len(base_segments_df) :
        /\ crash_df[j].REF_POINT_FLOAT # Null
        /\ base_segments_df[i].CORR_ID = crash_df[j].CORRIDOR
        /\ base_segments_df[i].CORR_MP_FLOAT # Null
        /\ base_segments_df[i].CORR_ENDMP_FLOAT # Null
        /\ base_segments_df[i].CORR_MP_FLOAT[1] <= crash_df[j].REF_POINT_FLOAT[1]
        /\ crash_df[j].REF_POINT_FLOAT[1] <= base_segments_df[i].CORR_ENDMP_FLOAT[1]}

FirstContaining(j) == CHOOSE i \in Containing(j) : \A k \in Containing(j) : i <= k

\* the crashes among the first n that some row contains
Hits(n) == {j \in 1..n : Containing(j) # {}}

NthHit(n, k) == CHOOSE j \in Hits(n) : Cardinality({h \in Hits(n) : h <= j}) = k

Unmatchable(crash) ==
    crash.REF_POINT_FLOAT = Null \/ crash.CORRIDOR \notin DOMAIN corridor_index

\* the number of crashes with a parsed reference point on an indexed corridor corr
MatchableOn(corr) ==
    Cardinality({j \in 1..Len(crash_df) :
                    ~Unmatchable(crash_df[j]) /\ crash_df[j].CORRIDOR = corr})

\* the key of a row of a year's file
FileKey(r) ==
    SegmentKey(NormalizeId(r.CORR_ID), r.CORR_MP, r.CORR_ENDMP, NormalizeId(r.DEPT_ID))

RowsWithKey(year, key) ==
    {k \in 1..Len(files[year]) : KeyEq(FileKey(files[year][k]), key)}

\* the count the year's table holds for a key (its first row with the key),
\* Null when the file, the key or the count is missing
YearValue(year, key) ==
    IF year \notin DOMAIN files THEN Null
    ELSE IF RowsWithKey(year, key) = {} THEN Null
    ELSE to_numeric(files[year][CHOOSE k \in RowsWithKey(year, key) :
                                    \A m \in RowsWithKey(year, key) : k <= m].TYC_AADT)

\* the years after the baseline that hold a count for the key
YearsWithValue(key) ==
    {y \in {years[k] : k \in 2..Len(years)} : YearValue(y, key) # Null}

RECURSIVE SumOfYears(_, _)
SumOfYears(S, key) ==
    IF S = {} THEN <<0, 1>>
    ELSE LET y == CHOOSE x \in S : TRUE
         IN  RatAdd(YearValue(y, key), SumOfYears(S \ {y}, key))

BaselineValue(i) == to_numeric(files[BaseYear][i].TYC_AADT)

Averaged == pc \in {"match", "done"}

---------------------------------------------------------------------------
(* Properties *)

\* C1: the corridor index lists each corridor's segments in catalog row order,
\* and the matches recorded so far are, crash by crash, the first catalog row
\* of the crash's corridor whose inclusive range holds the reference point
\* (no match when no row holds it).
C1_FirstMatchInRowOrder ==
    Averaged =>
        /\ \A c \in DOMAIN corridor_index :
              LET rows == SelectSeq(base_segments_df, LAMBDA r : r.CORR_ID = c)
              IN  /\ Len(corridor_index[c]) = Len(rows)
                  /\ \A k \in 1..Len(rows) :
                        /\ corridor_index[c][k].SEGMENT_KEY = rows[k].SEGMENT_KEY
                        /\ corridor_index[c][k].CORR_MP_FLOAT = rows[k].CORR_MP_FLOAT
                        /\ corridor_index[c][k].CORR_ENDMP_FLOAT = rows[k].CORR_ENDMP_FLOAT
        /\ Len(matched_sections) = Cardinality(Hits(ci - 1))
        /\ \A k \in 1..Len(matched_sections) :
              LET row == base_segments_df[FirstContaining(NthHit(ci - 1, k))]
              IN  /\ matched_sections[k].SEGMENT_KEY = row.SEGMENT_KEY
                  /\ matched_sections[k].CORR_MP = row.CORR_MP
                  /\ matched_sections[k].CORR_ENDMP = row.CORR_ENDMP

\* C1 witness: segments (2.0,3.0),(3.0,4.0) of one corridor in this order, a
\* crash at exactly 3.0 on it, resolved to (2.0,3.0).
C1_Witness ==
    /\ pc = "match"
    /\ ci = 2
    /\ Len(base_segments_df) = 2
    /\ base_segments_df[1].CORR_ID = base_segments_df[2].CORR_ID
    /\ base_segments_df[1].CORR_MP_FLOAT = <<2000>>
    /\ base_segments_df[1].CORR_ENDMP_FLOAT = <<3000>>
    /\ base_segments_df[2].CORR_MP_FLOAT = <<3000>>
    /\ base_segments_df[2].CORR_ENDMP_FLOAT = <<4000>>
    /\ crash_df[1].CORRIDOR = base_segments_df[1].CORR_ID
    /\ crash_df[1].REF_POINT_FLOAT = <<3000>>
    /\ Len(matched_sections) = 1
    /\ matched_sections[1].CORR_ENDMP = base_segments_df[1].CORR_ENDMP

\* C2: a crash whose reference point is null or whose normalized corridor is
\* not a key of the index leaves the list of matches as it is, and no segment
\* ends with more crashes than the matchable crashes of its own corridor.
C2_UnmatchedAddsNothing ==
    [][/\ (pc = "match" /\ ci <= Len(crash_df) /\ Unmatchable(crash_df[ci]))
              => matched_sections' = matched_sections
       /\ pc' = "done"
              => \A i \in 1..Len(output_df') :
                    output_df'[i].TOTAL_CRASHES <= MatchableOn(output_df'[i].CORR_ID)]_vars

\* C2 witness: a finished run with a crash without reference point on an
\* indexed corridor and a crash on an unindexed corridor whose reference point
\* lies in the range of a segment of another corridor; every count is 0.
C2_Witness ==
    /\ pc = "done"
    /\ \E j, k \in 1..Len(crash_df) :
          /\ crash_df[j].REF_POINT_FLOAT = Null
          /\ crash_df[j].CORRIDOR \in DOMAIN corridor_index
          /\ crash_df[k].REF_POINT_FLOAT # Null
          /\ crash_df[k].CORRIDOR \notin DOMAIN corridor_index
          /\ \E i \in 1..Len(output_df) :
                /\ output_df[i].CORR_MP_FLOAT # Null
                /\ output_df[i].CORR_ENDMP_FLOAT # Null
                /\ output_df[i].CORR_MP_FLOAT[1] <= crash_df[k].REF_POINT_FLOAT[1]
                /\ crash_df[k].REF_POINT_FLOAT[1] <= output_df[i].CORR_ENDMP_FLOAT[1]
    /\ \A i \in 1..Len(output_df) : output_df[i].TOTAL_CRASHES = 0

\* C3: when the run is finished the crashes are conserved and the unmatched
\* ones are tallied: the run's summary holds an unmatched total equal to the
\* number of input crashes minus the number of matched crashes.
C3_UnmatchedTallied ==
    pc = "done" =>
        /\ "unmatched_crashes" \in DOMAIN final_results
        /\ Len(matched_sections) + final_results.unmatched_crashes = Len(crash_df)

\* C4: in the finished table every segment's TOTAL_CRASHES is the number of
\* crashes whose first containing row has that segment's key (0 if none).
C4_TotalCrashesIsMatchCount ==
    pc = "done" =>
        \A i \in 1..Len(output_df) :
            output_df[i].TOTAL_CRASHES =
                Cardinality({j \in Hits(Len(crash_df)) :
                    KeyEq(base_segments_df[FirstContaining(j)].SEGMENT_KEY,
                          output_df[i].SEGMENT_KEY)})

\* C4 witness: a finished table with a segment two crashes resolved to and a
\* segment no crash resolved to.
C4_Witness ==
    /\ pc = "done"
    /\ \E i, k \in 1..Len(output_df) :
          output_df[i].TOTAL_CRASHES = 2 /\ output_df[k].TOTAL_CRASHES = 0

\* the baseline row an output row stems from, as (corridor, start, end)
RowId(corr, mp, endmp) == <<corr, mp, endmp>>

\* C5: the written table has exactly one row per row of the baseline file:
\* as many rows, and every baseline row as often as the file holds it.
C5_OneRowPerBaselineSegment ==
    pc = "done" =>
        /\ Len(output_df) = Len(files[BaseYear])
        /\ \A i \in 1..Len(files[BaseYear]) :
              LET id(r) == RowId(NormalizeId(r.CORR_ID), r.CORR_MP, r.CORR_ENDMP)
              IN  Cardinality({k \in 1..Len(output_df) :
                        RowId(output_df[k].CORR_ID, output_df[k].CORR_MP,
                              output_df[k].CORR_ENDMP) = id(files[BaseYear][i])})
                  = Cardinality({k \in 1..Len(files[BaseYear]) :
                        id(files[BaseYear][k]) = id(files[BaseYear][i])})

\* C5 witness: a finished table, built through the merge of crash counts, that
\* holds a segment with crashes, and without crashes a segment whose start
\* exceeds its end or whose start does not parse.
C5_Witness ==
    /\ pc = "done"
    /\ matched_sections # <<>>
    /\ \E i, k \in 1..Len(output_df) :
          /\ output_df[i].TOTAL_CRASHES > 0
          /\ output_df[k].TOTAL_CRASHES = 0
          /\ \/ output_df[k].CORR_MP_FLOAT = Null
             \/ output_df[k].CORR_MP_FLOAT[1] > output_df[k].CORR_ENDMP_FLOAT[1]

\* C6: when the averager processes one more year, a segment whose key has a
\* count in that year's table and whose running average is not null gets
\* (average * years + count) / (years + 1) and one more year with data; every
\* other segment keeps its average and its years with data.
C6_AveragerStep ==
    [][(pc = "average" /\ yi <= Len(years)) =>
          /\ Len(base_segments_df') = Len(base_segments_df)
          /\ \A i \in 1..Len(base_segments_df) :
                LET old == base_segments_df[i]
                    new == base_segments_df'[i]
                    v   == YearValue(years[yi], old.SEGMENT_KEY)
                IN  IF v # Null /\ old.TYC_AADT # Null
                    THEN /\ new.TYC_AADT # Null
                         /\ new.TYC_AADT[1]
                                * (old.TYC_AADT[2] * v[2] * (old.YEARS_WITH_DATA + 1))
                            = (old.TYC_AADT[1] * old.YEARS_WITH_DATA * v[2]
                                    + v[1] * old.TYC_AADT[2]) * new.TYC_AADT[2]
                         /\ new.YEARS_WITH_DATA = old.YEARS_WITH_DATA + 1
                    ELSE /\ new.TYC_AADT = old.TYC_AADT
                         /\ new.YEARS_WITH_DATA = old.YEARS_WITH_DATA]_vars

\* C6 witness: after the second extra year one segment stands at the mean of
\* three years (100, 200, 400 or a permutation) and another one, with a
\* non-null average, was left at its baseline count and one year.
C6_Witness ==
    /\ pc = "average"
    /\ yi = 4
    /\ \E i, k \in 1..Len(base_segments_df) :
          /\ base_segments_df[i].YEARS_WITH_DATA = 3
          /\ base_segments_df[i].TYC_AADT = <<700, 3>>
          /\ base_segments_df[k].YEARS_WITH_DATA = 1
          /\ base_segments_df[k].TYC_AADT = <<100, 1>>

\* C7: after averaging, a segment with a baseline count has the arithmetic
\* mean of its baseline count and the counts of the other years that hold one
\* for its key, whatever the order of the years.
C7_MeanOfYears ==
    Averaged =>
        \A i \in 1..Len(base_segments_df) :
            LET key == base_segments_df[i].SEGMENT_KEY
                S   == YearsWithValue(key)
            IN  BaselineValue(i) # Null =>
                    base_segments_df[i].TYC_AADT =
                        RatDivInt(RatAdd(BaselineValue(i), SumOfYears(S, key)),
                                  1 + Cardinality(S))

\* C7 witness: counts 100, 200, 400 in three years, the two later years
\* traversed in ascending order, averaged to 700/3.
C7_Witness ==
    /\ pc = "match"
    /\ years[2] < years[3]
    /\ \E i \in 1..Len(base_segments_df) :
          /\ base_segments_df[i].YEARS_WITH_DATA = 3
          /\ base_segments_df[i].TYC_AADT = <<700, 3>>

\* C8: after averaging, every segment's YEARS_WITH_DATA is the number of
\* processed years, the baseline included, in which its key had a count while
\* the running average was not null: 0 for a segment whose baseline count is
\* null or not a number.
C8_YearsWithDataIsCount ==
    Averaged =>
        \A i \in 1..Len(base_segments_df) :
            base_segments_df[i].YEARS_WITH_DATA =
                IF BaselineValue(i) = Null THEN 0
                ELSE 1 + Cardinality(YearsWithValue(base_segments_df[i].SEGMENT_KEY))

\* C9: a segment whose running average is null keeps a null average and its
\* YEARS_WITH_DATA in every later step of the run.
C9_NullStaysNull ==
    [][\A i \in 1..Len(base_segments_df) :
          base_segments_df[i].TYC_AADT = Null =>
              /\ Len(base_segments_df') = Len(base_segments_df)
              /\ base_segments_df'[i].TYC_AADT = Null
              /\ base_segments_df'[i].YEARS_WITH_DATA
                    = base_segments_df[i].YEARS_WITH_DATA]_vars

\* C9 witness: all years are averaged, a segment has no average although a
\* later year's table holds a count for its key.
C9_Witness ==
    /\ pc = "match"
    /\ \E i \in 1..Len(base_segments_df) :
          /\ base_segments_df[i].TYC_AADT = Null
          /\ YearsWithValue(base_segments_df[i].SEGMENT_KEY) # {}

\* C10: a year without a file changes no segment and the loop moves on to the
\* next year; no step aborts the run unless the baseline file is missing; and
\* once the averaging is over every year was visited and the years after a
\* missing one are averaged in.
C10_MissingYearSkipped ==
    [][/\ (pc = "average" /\ yi <= Len(years) /\ years[yi] \notin DOMAIN files) =>
              /\ base_segments_df' = base_segments_df
              /\ yi' = yi + 1
              /\ pc' = "average"
       /\ pc' = "aborted" => BaseYear \notin DOMAIN files
       /\ pc' \in {"match", "done"} =>
              /\ yi' = Len(years) + 1
              /\ \A i \in 1..Len(base_segments_df') :
                    BaselineValue(i) # Null =>
                        base_segments_df'[i].YEARS_WITH_DATA
                            = 1 + Cardinality(YearsWithValue(base_segments_df'[i].SEGMENT_KEY))]_vars

\* C10 witness: the first extra year has no file, the second one has and was
\* averaged into a segment, and the run is finished.
C10_Witness ==
    /\ pc = "done"
    /\ years[2] \notin DOMAIN files
    /\ years[3] \in DOMAIN files
    /\ \E i \in 1..Len(output_df) :
          output_df[i].YEARS_WITH_DATA = 2 /\ output_df[i].TOTAL_CRASHES = 1

\* C19: whenever the crash loop records a match, the matched segment's
\* mileposts both parse and start <= reference point <= end, hence start <= end:
\* a segment that is reversed or has an unparsable end is never matched.
C19_MatchedRangeIsOrdered ==
    [][(pc = "match" /\ matched_sections' # matched_sections) =>
          LET m   == matched_sections'[Len(matched_sections')]
              a   == parse_milepost(m.CORR_MP)
              b   == parse_milepost(m.CORR_ENDMP)
              ref == crash_df[ci].REF_POINT_FLOAT
          IN  /\ a # Null /\ b # Null /\ ref # Null
              /\ a[1] <= ref[1] /\ ref[1] <= b[1]
              /\ a[1] <= b[1]]_vars

\* C19 witness: the crash's corridor lists a reversed segment whose ends
\* enclose the reference point, or one without a start, before the segment the
\* crash was matched to.
C19_Witness ==
    /\ pc = "match"
    /\ ci = 2
    /\ Len(matched_sections) = 1
    /\ crash_df[1].REF_POINT_FLOAT = <<3000>>
    /\ crash_df[1].CORRIDOR \in DOMAIN corridor_index
    /\ LET first == corridor_index[crash_df[1].CORRIDOR][1]
       IN  /\ first.CORR_MP_FLOAT = <<4000>>
           /\ first.CORR_ENDMP_FLOAT = <<2000>>
           /\ matched_sections[1].SEGMENT_KEY # first.SEGMENT_KEY

---------------------------------------------------------------------------
(* Derived metrics *)

\* C11: in the finished table a row with AVG_CRASHES = 0 has neither
\* CARS_PER_ACC nor MILES_PER_ACC, and no row holds an infinite AVG_CRASHES,
\* CARS_PER_ACC or MILES_PER_ACC.
C11_ZeroCrashRatiosNull ==
    pc = "done" =>
        \A i \in 1..Len(output_df) :
            /\ output_df[i].AVG_CRASHES[1] = 0 =>
                  /\ output_df[i].CARS_PER_ACC = Null
                  /\ output_df[i].MILES_PER_ACC = Null
            /\ Inf \notin {output_df[i].AVG_CRASHES, output_df[i].CARS_PER_ACC,
                           output_df[i].MILES_PER_ACC}

\* C11 witness: a finished table with a zero-crash row that has traffic and
\* miles driven, and a row with crashes whose ratios are numbers.
C11_Witness ==
    /\ pc = "done"
    /\ \E i, j \in 1..Len(output_df) :
          /\ output_df[i].TOTAL_CRASHES = 0
          /\ output_df[i].TYC_AADT # Null
          /\ output_df[i].MILES_DRIVEN # Null
          /\ output_df[i].MILES_DRIVEN[1] > 0
          /\ output_df[i].CARS_PER_ACC = Null
          /\ output_df[j].TOTAL_CRASHES > 0
          /\ output_df[j].CARS_PER_ACC # Null
          /\ output_df[j].MILES_PER_ACC # Null

\* a / b = c on floats that may be missing, b a positive rational
IsQuotient(c, a, b) ==
    IF a = Null THEN c = Null
    ELSE c # Null /\ c # Inf /\ c[1] * b[1] * a[2] = a[1] * c[2] * b[2]

\* a * b = c on floats that may be missing
IsProduct(c, a, b) ==
    IF a = Null \/ b = Null THEN c = Null
    ELSE c # Null /\ c[1] * a[2] * b[2] = a[1] * b[1] * c[2]

\* the baseline row an output row was made from
SourceRows(i) ==
    {k \in 1..Len(base_segments_df) :
        /\ base_segments_df[k].CORR_MP = output_df[i].CORR_MP
        /\ base_segments_df[k].CORR_ENDMP = output_df[i].CORR_ENDMP
        /\ base_segments_df[k].CORR_ID = output_df[i].CORR_ID
        /\ base_segments_df[k].TYC_AADT = output_df[i].TYC_AADT}

\* the worked example: length 2, AADT 1000, a 5-year window, 10 crashes
ExampleRow ==
    [CORR_ID |-> <<"A">>, DEPT_ID |-> <<"P", "-", "1">>, CORR_MP |-> mp2,
     CORR_ENDMP |-> mp4, SEGMENT_KEY |-> <<"k">>, CORR_MP_FLOAT |-> <<2000>>,
     CORR_ENDMP_FLOAT |-> <<4000>>, TYC_AADT |-> <<1000, 1>>,
     YEARS_WITH_DATA |-> 5, SEC_LNT_MI |-> <<"2", ".", "0">>,
     TOTAL_CRASHES |-> 10, ROUTE_NAME |-> Null, SIGNED_ROUTE |-> Null,
     SYSTEM |-> Null]

\* C13: in the finished table every row with AVG_CRASHES > 0 has
\* MILES_DRIVEN = length * averaged AADT, AVG_CRASHES = TOTAL_CRASHES / number
\* of years, CARS_PER_ACC = AADT / AVG_CRASHES and MILES_PER_ACC =
\* MILES_DRIVEN / AVG_CRASHES (a missing operand gives a missing result); and
\* length 2, AADT 1000, 5 years, 10 crashes give 2, 2000, 500 and 1000.
C13_MetricFormulas ==
    /\ pc = "done" =>
        \A i \in 1..Len(output_df) :
            LET r == output_df[i]
            IN  r.AVG_CRASHES[1] > 0 =>
                  /\ SourceRows(i) # {}
                  /\ \A k \in SourceRows(i) :
                        IsProduct(r.MILES_DRIVEN,
                                  to_numeric(base_segments_df[k].SEC_LNT_MI),
                                  base_segments_df[k].TYC_AADT)
                  /\ r.AVG_CRASHES[1] * Len(years) = r.TOTAL_CRASHES * r.AVG_CRASHES[2]
                  /\ IsQuotient(r.CARS_PER_ACC, r.TYC_AADT, r.AVG_CRASHES)
                  /\ IsQuotient(r.MILES_PER_ACC, r.MILES_DRIVEN, r.AVG_CRASHES)
    /\ LET e == DerivedMetrics(ExampleRow, 5)
       IN  /\ e.AVG_CRASHES = <<2, 1>>
           /\ e.MILES_DRIVEN = <<2000, 1>>
           /\ e.CARS_PER_ACC = <<500, 1>>
           /\ e.MILES_PER_ACC = <<1000, 1>>

\* C13 witness: a segment of length 2 with averaged AADT 200 and 2 crashes in
\* a 3-year run: AVG_CRASHES 2/3, MILES_DRIVEN 400, CARS_PER_ACC 300 and
\* MILES_PER_ACC 600.
C13_Witness ==
    /\ pc = "done"
    /\ Len(years) = 3
    /\ \E i \in 1..Len(output_df) :
          /\ output_df[i].TOTAL_CRASHES = 2
          /\ output_df[i].SEC_LNT_MI = <<2, 1>>
          /\ output_df[i].TYC_AADT = <<200, 1>>
          /\ output_df[i].AVG_CRASHES = <<2, 3>>
          /\ output_df[i].MILES_DRIVEN = <<400, 1>>
          /\ output_df[i].CARS_PER_ACC = <<300, 1>>
          /\ output_df[i].MILES_PER_ACC = <<600, 1>>

\* C14: in the finished table AVG_CRASHES of every row is TOTAL_CRASHES over
\* the one number of years of the run, whatever the row's YEARS_WITH_DATA and
\* whichever year files exist.
C14_OneDivisorForTheRun ==
    pc = "done" =>
        \A i \in 1..Len(output_df) :
            /\ output_df[i].AVG_CRASHES # Inf
            /\ output_df[i].AVG_CRASHES[1] * Len(years)
                  = output_df[i].TOTAL_CRASHES * output_df[i].AVG_CRASHES[2]

\* C14 witness: a run of three years where a year file is missing and a
\* segment with one crash was averaged over two years only; its AVG_CRASHES
\* is 1/3.
C14_Witness ==
    /\ pc = "done"
    /\ Len(years) = 3
    /\ \E y \in 2..3 : years[y] \notin DOMAIN files
    /\ \E i \in 1..Len(output_df) :
          /\ output_df[i].YEARS_WITH_DATA = 2
          /\ output_df[i].TOTAL_CRASHES = 1
          /\ output_df[i].AVG_CRASHES = <<1, 3>>

---------------------------------------------------------------------------
(* parse_milepost in its four copies *)

MaxMpLen == 4

\* an exception of the call (a pair, so that it differs from None and from
\* every returned number)
ValueError == <<"ValueError", "raised">>

\* new_merge_traffic.py holds the same text as merge_traffic.py
parse_milepost_new(s) == parse_milepost(s)

\* merge-traffic-accidents.py: no stripping of zeros
parse_milepost_accidents(s) ==
    IF s = NaN THEN Null
    ELSE LET parts == split(s, "+")
         IN  IF Len(parts) # 2 THEN Null
             ELSE LET a == ParseFloat(parts[1])
                      b == ParseFloat(parts[2])
                  IN  IF a = Null \/ b = Null THEN Null ELSE <<a[1] + b[1]>>

\* manually_segment_routes.py: no try, and a string without '+' is a float
parse_milepost_manual(s) ==
    IF s = NaN \/ s = <<>> THEN Null
    ELSE LET parts == split(s, "+")
         IN  IF Len(parts) = 2
             THEN LET a == ParseFloat(parts[1])
                      b == ParseFloat(parts[2])
                  IN  IF a = Null \/ b = Null THEN ValueError ELSE <<a[1] + b[1]>>
             ELSE LET v == ParseFloat(s)
                  IN  IF v = Null THEN ValueError ELSE v

\* the copies in the order they are called here
Copies == <<"merge_traffic", "new_merge_traffic", "merge-traffic-accidents",
            "manually_segment_routes">>

Called(k) == DOMAIN parsed = {Copies[j] : j \in 1..k}

Returned(k, value) ==
    /\ Called(k - 1)
    /\ parsed' = parsed @@ (Copies[k] :> value)
    /\ UNCHANGED <<mp_str, merge_vars, geo_vars, trip_vars, more_vars>>

ParseMilepost == Returned(1, parse_milepost(mp_str))

ParseMilepostNew == Returned(2, parse_milepost_new(mp_str))

ParseMilepostAccidents == Returned(3, parse_milepost_accidents(mp_str))

ParseMilepostManual == Returned(4, parse_milepost_manual(mp_str))

NextParse ==
    \/ ParseMilepost
    \/ ParseMilepostNew
    \/ ParseMilepostAccidents
    \/ ParseMilepostManual

\* the characters of the arguments
MpAlphabet == {"0", "5", "+", "-", ".", "x"}

MpExamples ==
    {<<"0", "0", "2", "+", "0", ".", "6", "1", "9">>,
     <<"0", "0", "0", "+", "0", ".", "5">>,
     <<"-", "5", "+", "0", ".", "3">>,
     <<"0", "+", "-", "3">>,
     <<"0", "-", "5", "+", "0">>,
     <<" ", "5", "+", "0", " ">>}

\* every string of up to MaxMpLen characters, a missing cell and the examples
MpInputs == SeqsUpTo(MpAlphabet, MaxMpLen) \cup {NaN} \cup MpExamples

InitParse ==
    /\ mp_str \in MpInputs
    /\ parsed = <<>>
    /\ MergeIdle
    /\ GeoIdle
    /\ TripsIdle
    /\ MoreIdle

SpecParse == InitParse /\ [][NextParse]_vars

\* Reference notions on the argument text

Pluses(s) == {i \in 1..Len(s) : s[i] = "+"}

LeftOperand(s) == SubSeq(s, 1, (CHOOSE i \in Pluses(s) : TRUE) - 1)

RightOperand(s) == SubSeq(s, (CHOOSE i \in Pluses(s) : TRUE) + 1, Len(s))

\* digits with at most one '.', at least one digit
IsDecimal(s) ==
    /\ \A i \in 1..Len(s) : IsDigit(s[i]) \/ s[i] = "."
    /\ Cardinality({i \in 1..Len(s) : s[i] = "."}) <= 1
    /\ \E i \in 1..Len(s) : IsDigit(s[i])

\* a decimal with an optional sign, blanks around it allowed
IsNumeral(s) ==
    LET t == strip(s)
    IN  t # <<>> /\ IsDecimal(IF t[1] \in {"+", "-"} THEN Tail(t) ELSE t)

\* the value of a decimal in thousandths
DecimalValue(s) ==
    LET dots == {i \in 1..Len(s) : s[i] = "."}
        k    == IF dots = {} THEN Len(s) + 1 ELSE CHOOSE i \in dots : TRUE
    IN  1000 * DigitsValue(SubSeq(s, 1, k - 1)) + FracValue(SubSeq(s, k + 1, Len(s)))

\* missing, not exactly one '+', or an operand that is not a number (an empty
\* integer part counts as zero)
Malformed(s) ==
    \/ s = NaN
    \/ Cardinality(Pluses(s)) # 1
    \/ ~(LeftOperand(s) = <<>> \/ IsNumeral(LeftOperand(s)))
    \/ ~IsNumeral(RightOperand(s))

\* "<integer>+<decimal>", the integer possibly empty
WellFormed(s) ==
    /\ s # NaN
    /\ Cardinality(Pluses(s)) = 1
    /\ \A i \in 1..Len(LeftOperand(s)) : IsDigit(LeftOperand(s)[i])
    /\ IsDecimal(RightOperand(s))

\* C16: no copy of parse_milepost raises, and every copy returns null for an
\* argument that is missing, has not exactly one '+', or has a non-numeric
\* operand.
C16_NeverRaisesNullOnMalformed ==
    \A c \in DOMAIN parsed :
        /\ parsed[c] # ValueError
        /\ Malformed(mp_str) => parsed[c] = Null

\* C17: for every "<integer>+<decimal>" every copy of parse_milepost returns
\* integer + decimal, leading zeros ignored and an empty integer part read as 0.
C17_IntegerPlusDecimal ==
    \A c \in DOMAIN parsed :
        WellFormed(mp_str) =>
            parsed[c] = <<1000 * DigitsValue(LeftOperand(mp_str))
                            + DecimalValue(RightOperand(mp_str))>>

\* C18: what parse_milepost returns is null or a number that is not negative.
C18_NeverNegative ==
    \A c \in DOMAIN parsed :
        parsed[c] \notin {Null, ValueError} => parsed[c][1] >= 0

---------------------------------------------------------------------------
(* point_on_linestring *)

MaxVertices == 3

\* math.hypot on offsets whose length is a whole number (the paths drawn below
\* have no other legs)
Hypot(dx, dy) ==
    CHOOSE r \in 0..(Abs(dx) + Abs(dy)) : r * r = dx * dx + dy * dy

\* the length of the leg from vertex i to vertex i + 1
SegLength(coords, i) ==
    Hypot(coords[i + 1][1] - coords[i][1], coords[i + 1][2] - coords[i][2])

RECURSIVE TotalLength(_, _)
\* the sum of the legs up to leg i
TotalLength(coords, i) ==
    IF i < 1 THEN 0 ELSE TotalLength(coords, i - 1) + SegLength(coords, i)

\* a vertex as the pair of floats it is returned as
Vertex(p) == <<Rat(p[1], 1), Rat(p[2], 1)>>

\* mutant: the vertex in the middle of the list
MiddleVertex(coords, i, cum, total) == Vertex(coords[(Len(coords) + 1) \div 2])

RECURSIVE HalfwayPoint(_, _, _, _)
\* the second loop: the first leg i with cum + d >= half, interpolated at
\* t = (half - cum) / d; the last vertex when no leg is found
HalfwayPoint(coords, i, cum, total) ==
    IF i > Len(coords) - 1 THEN Vertex(coords[Len(coords)])
    ELSE LET d    == SegLength(coords, i)
             prev == coords[i]
             cur  == coords[i + 1]
         IN  IF 2 * (cum + d) >= total
             THEN IF d = 0 THEN Vertex(prev)
                  ELSE <<Rat(prev[1] * 2 * d + (cur[1] - prev[1]) * (total - 2 * cum), 2 * d),
                         Rat(prev[2] * 2 * d + (cur[2] - prev[2]) * (total - 2 * cum), 2 * d)>>
             ELSE HalfwayPoint(coords, i + 1, cum + d, total)

\* max(parts, key=len): the first of the parts with the most vertices
LongestPart(parts) ==
    LET most == CHOOSE n \in {Len(parts[k]) : k \in 1..Len(parts)} :
                    \A k \in 1..Len(parts) : Len(parts[k]) <= n
        k0   == CHOOSE k \in 1..Len(parts) :
                    /\ Len(parts[k]) = most
                    /\ \A j \in 1..(k - 1) : Len(parts[j]) < most
    IN  parts[k0]

\* the point of a vertex list: Null is None
PointOnCoords(coords, pref) ==
    IF coords = <<>> THEN Null
    ELSE IF pref = "start" THEN Vertex(coords[1])
    ELSE LET total == TotalLength(coords, Len(coords) - 1)
         IN  IF total = 0 THEN Vertex(coords[1])
             ELSE HalfwayPoint(coords, 1, 0, total)

point_on_linestring(geom, pref) ==
    IF geom = Null THEN Null
    ELSE IF geom.type = "LineString" THEN PointOnCoords(geom.coordinates, pref)
    ELSE IF geom.type = "MultiLineString"
    THEN IF geom.coordinates = <<>> THEN Null
         ELSE PointOnCoords(LongestPart(geom.coordinates), pref)
    ELSE Null

PointOnLinestring ==
    /\ point = <<>>
    /\ point' = <<point_on_linestring(geometry, prefer)>>
    /\ UNCHANGED <<geometry, prefer, merge_vars, parse_vars, trip_vars, more_vars>>

NextGeo == PointOnLinestring

\* the vertices of the paths: a grid whose cells are 3 wide and 4 high
GeoPoints == {<<x, y>> : x \in {0, 3, 6}, y \in {0, 4}}

WholeLegs(coords) ==
    \A i \in 1..(Len(coords) - 1) :
        LET dx == coords[i + 1][1] - coords[i][1]
            dy == coords[i + 1][2] - coords[i][2]
        IN  \E r \in 0..(Abs(dx) + Abs(dy)) : r * r = dx * dx + dy * dy

\* every vertex list of up to MaxVertices grid points whose legs are whole
GeoPaths == {c \in SeqsUpTo(GeoPoints, MaxVertices) : WholeLegs(c)}

\* the parts of the multi-part geometries
GeoParts ==
    {<<>>, <<<<0, 0>>, <<6, 0>>>>, <<<<0, 4>>, <<0, 0>>>>,
     <<<<0, 0>>, <<0, 4>>, <<6, 4>>>>}

Geometries ==
    {Null}
        \cup {[type |-> "LineString", coordinates |-> c] : c \in GeoPaths}
        \cup {[type |-> "MultiLineString", coordinates |-> ps] :
                ps \in SeqsUpTo(GeoParts, 2)}
        \cup {[type |-> "Point", coordinates |-> <<p>>] : p \in GeoPoints}

InitGeo ==
    /\ geometry \in Geometries
    /\ prefer \in {"midpoint", "start"}
    /\ point = <<>>
    /\ MergeIdle
    /\ ParseIdle
    /\ TripsIdle
    /\ MoreIdle

SpecGeo == InitGeo /\ [][NextGeo]_vars

\* Reference notions on a path

\* p lies on leg i at arc length half the total from the start of the path
AtHalfOnLeg(p, coords, i) ==
    LET total == TotalLength(coords, Len(coords) - 1)
        d     == SegLength(coords, i)
        num   == total - 2 * TotalLength(coords, i - 1)
    IN  /\ d > 0
        /\ 0 <= num /\ num <= 2 * d
        /\ \A a \in 1..2 :
              (p[a][1] - coords[i][a] * p[a][2]) * 2 * d
                  = (coords[i + 1][a] - coords[i][a]) * num * p[a][2]

\* the 3-vertex path with legs 4 and 6
ExamplePath ==
    [type |-> "LineString", coordinates |-> <<<<0, 0>>, <<0, 4>>, <<6, 4>>>>]

\* C20: on a line string of positive length, prefer = 'midpoint' returns the
\* point at half the arc length, on the leg that holds it, by interpolation
\* between the leg's ends; on the path (0,0), (0,4), (6,4) that is (1,4), not
\* the middle vertex. prefer = 'start' returns the first vertex.
C20_MidpointAtHalfArcLength ==
    /\ (point # <<>> /\ geometry # Null /\ geometry.type = "LineString"
            /\ geometry.coordinates # <<>>) =>
          LET coords == geometry.coordinates
          IN  /\ prefer = "start" => point[1] = Vertex(coords[1])
              /\ (prefer = "midpoint" /\ TotalLength(coords, Len(coords) - 1) > 0) =>
                    /\ point[1] # Null
                    /\ \E i \in 1..(Len(coords) - 1) : AtHalfOnLeg(point[1], coords, i)
    /\ point_on_linestring(ExamplePath, "midpoint") = <<<<1, 1>>, <<4, 1>>>>

\* C20 witness: the midpoint of the path (0,0), (0,4), (6,4) was asked for and
\* (1,4) came back.
C20_Witness ==
    /\ geometry = ExamplePath
    /\ prefer = "midpoint"
    /\ point = <<<<<<1, 1>>, <<4, 1>>>>>>

\* C21: on a line string, a path of fewer than 2 vertices (none or one) gives
\* null, and a path of 2 or more coincident vertices (total length 0) gives
\* its first vertex, for both placement preferences.
C21_DegeneratePaths ==
    (point # <<>> /\ geometry # Null /\ geometry.type = "LineString") =>
        LET coords == geometry.coordinates
        IN  /\ Len(coords) < 2 => point[1] = Null
            /\ (Len(coords) >= 2 /\ TotalLength(coords, Len(coords) - 1) = 0) =>
                  point[1] = Vertex(coords[1])

---------------------------------------------------------------------------
(* analyze_trips: per-route totals, rankings and top-N collections *)

MaxRoutes == 2

YEARS == 5

DAYS_PER_YEAR == <<1461, 4>>

HundredMillion == 100000000

\* an empty CSV cell, and '' in a written file
Blank == <<>>

\* float(x), 0.0 on any exception
ToFloat(x) ==
    LET v == ParseFloat(x) IN IF v = Null THEN <<0, 1>> ELSE Rat(v[1], 1000)

\* int(float(x)), 0 on any exception: the fraction is cut off
ToInt(x) ==
    LET v == ParseFloat(x)
    IN  IF v = Null THEN 0
        ELSE IF v[1] < 0 THEN 0 - ((0 - v[1]) \div 1000) ELSE v[1] \div 1000

RatLess(p, q) == p[1] * q[2] < q[1] * p[2]

\* the totals of a segment after one more row
AddRow(acc, sec, aadt, crashes) ==
    [sum_length          |-> RatAdd(acc.sum_length, sec),
     sum_miles_driven    |-> RatAdd(acc.sum_miles_driven, FloatMul(sec, aadt)),
     sum_weighted_aadt   |-> RatAdd(acc.sum_weighted_aadt, FloatMul(aadt, sec)),
     sum_crashes         |-> acc.sum_crashes + crashes,
     sum_aadt            |-> RatAdd(acc.sum_aadt, aadt)]

RECURSIVE SumRows(_, _)
\* the accumulation of one file's rows into the totals of its segment
SumRows(rows, acc) ==
    IF rows = <<>> THEN acc
    ELSE SumRows(Tail(rows),
                 AddRow(acc, ToFloat(Head(rows).SEC_LNT_MI),
                        ToFloat(Head(rows).TYC_AADT),
                        ToInt(Head(rows).TOTAL_CRASHES)))

NoTotals ==
    [sum_length |-> <<0, 1>>, sum_miles_driven |-> <<0, 1>>,
     sum_weighted_aadt |-> <<0, 1>>, sum_crashes |-> 0, sum_aadt |-> <<0, 1>>]

\* total_vmt: the miles driven over the whole crash period
TotalVmt(sum_miles_driven) ==
    IF sum_miles_driven[1] > 0
    THEN FloatMul(FloatMul(sum_miles_driven, DAYS_PER_YEAR), <<YEARS, 1>>)
    ELSE <<0, 1>>

\* value / sum_crashes, math.inf without crashes
PerAccident(value, sum_crashes) ==
    IF sum_crashes > 0 THEN FloatDiv(value, <<sum_crashes, 1>>) ELSE Inf

CrashesPer100mVmt(sum_crashes, total_vmt) ==
    IF total_vmt[1] > 0
    THEN FloatMul(FloatDiv(<<sum_crashes, 1>>, total_vmt), <<HundredMillion, 1>>)
    ELSE Inf

\* the AADT of a segment: weighted by length, or the plain mean of its rows
AvgAadt(t, n) ==
    IF t.sum_length[1] > 0
    THEN FloatDiv(t.sum_weighted_aadt, t.sum_length)
    ELSE RatDivInt(t.sum_aadt, n)

ResultRow(segment_name, t, avg_aadt) ==
    [segment_name         |-> segment_name,
     crashes              |-> t.sum_crashes,
     length               |-> t.sum_length,
     AVG_TYC_AADT         |-> avg_aadt,
     MILES_DRIVEN         |-> t.sum_miles_driven,
     CARS_PER_ACCIDENT    |-> PerAccident(avg_aadt, t.sum_crashes),
     MILES_PER_ACCIDENT   |-> PerAccident(t.sum_miles_driven, t.sum_crashes),
     CRASHES_PER_100M_VMT |-> CrashesPer100mVmt(t.sum_crashes,
                                                TotalVmt(t.sum_miles_driven))]

SegmentResult(segment_name, t, n) == ResultRow(segment_name, t, AvgAadt(t, n))

\* the result row of one segment
RouteResult(file) ==
    SegmentResult(file.name, SumRows(file.rows, NoTotals), Len(file.rows))

RECURSIVE process_all_files(_)
\* one result per CSV file that has rows, in the order the files are listed
process_all_files(dir) ==
    IF dir = <<>> THEN <<>>
    ELSE IF Head(dir).rows = <<>> THEN process_all_files(Tail(dir))
    ELSE <<RouteResult(Head(dir))>> \o process_all_files(Tail(dir))

\* a float cell as write_csv formats it: '' for infinity, else the number in
\* fixed notation (its digits past the sixth decimal are not modelled)
CsvFloat(v) == IF v = Inf THEN Blank ELSE <<"%.6f", v>>

CsvRow(r) ==
    [segment_name         |-> r.segment_name,
     crashes              |-> r.crashes,
     length               |-> CsvFloat(r.length),
     AVG_TYC_AADT         |-> CsvFloat(r.AVG_TYC_AADT),
     MILES_DRIVEN         |-> CsvFloat(r.MILES_DRIVEN),
     CARS_PER_ACCIDENT    |-> CsvFloat(r.CARS_PER_ACCIDENT),
     MILES_PER_ACCIDENT   |-> CsvFloat(r.MILES_PER_ACCIDENT),
     CRASHES_PER_100M_VMT |-> CsvFloat(r.CRASHES_PER_100M_VMT)]

write_csv(rows) == [i \in 1..Len(rows) |-> CsvRow(rows[i])]

\* a <= b on sort keys, math.inf the greatest
KeyLeq(a, b) == b = Inf \/ (a # Inf /\ ~RatLess(b, a))

\* the sort key of a ranking: the ratio itself, or -rate with math.inf for an
\* infinite rate
SortKey(r, by) ==
    CASE by = "per_car"  -> r.CARS_PER_ACCIDENT
      [] by = "per_mile" -> r.MILES_PER_ACCIDENT
      [] by = "per_vmt"  -> IF r.CRASHES_PER_100M_VMT = Inf THEN Inf
                            ELSE <<0 - r.CRASHES_PER_100M_VMT[1],
                                   r.CRASHES_PER_100M_VMT[2]>>

RECURSIVE InsertByKey(_, _, _)
InsertByKey(sorted, r, by) ==
    IF sorted = <<>> THEN <<r>>
    ELSE IF KeyLeq(SortKey(Head(sorted), by), SortKey(r, by))
         THEN <<Head(sorted)>> \o InsertByKey(Tail(sorted), r, by)
         ELSE <<r>> \o sorted

RECURSIVE SortedBy(_, _)
\* sorted(rows, key=...): ascending and stable
SortedBy(rows, by) ==
    IF rows = <<>> THEN <<>>
    ELSE InsertByKey(SortedBy(SubSeq(rows, 1, Len(rows) - 1), by),
                     rows[Len(rows)], by)

Rankings(rows) ==
    [f \in {"per_car", "per_mile", "per_vmt"} |-> SortedBy(rows, f)]

\* the sizes of the top-N collections
TopN == {10, 25, 50}

\* the properties of a route's feature
FeatureProperties(r) ==
    [SEGMENT_NAME         |-> r.segment_name,
     CRASHES              |-> r.crashes,
     LENGTH               |-> r.length,
     AVG_TYC_AADT         |-> r.AVG_TYC_AADT,
     MILES_DRIVEN         |-> r.MILES_DRIVEN,
     CARS_PER_ACCIDENT    |-> r.CARS_PER_ACCIDENT,
     MILES_PER_ACCIDENT   |-> r.MILES_PER_ACCIDENT,
     CRASHES_PER_100M_VMT |-> IF r.CRASHES_PER_100M_VMT = Inf THEN Null
                              ELSE r.CRASHES_PER_100M_VMT]

HasGeojson(dir, name) ==
    \E k \in 1..Len(dir) : dir[k].name = name /\ dir[k].geojson

\* the features json.dump writes for rows[:top_n]: one per route that has a
\* geometry file
merge_geojson_for_top(dir, rows, top_n) ==
    LET top  == SubSeq(rows, 1, IF top_n < Len(rows) THEN top_n ELSE Len(rows))
        with == SelectSeq(top, LAMBDA r : HasGeojson(dir, r.segment_name))
    IN  [i \in 1..Len(with) |-> FeatureProperties(with[i])]

\* new_merge_traffic.main: ANNUAL_VMT
AnnualVmt365(miles_driven) == FloatMul(miles_driven, <<365, 1>>)

AnnualVmt(miles_driven) == FloatMul(miles_driven, DAYS_PER_YEAR)

\* new_merge_traffic.main: PER_100M_VMT of a row, None outside the mask
Per100mVmt(total_crashes, miles_driven, total_years) ==
    LET avg_crashes == Rat(total_crashes, total_years)
        annual_vmt  == AnnualVmt(miles_driven)
    IN  IF annual_vmt # Null /\ annual_vmt[1] > 0
        THEN FloatMul(FloatDiv(avg_crashes, annual_vmt), <<HundredMillion, 1>>)
        ELSE Null

\* the PER_100M_VMT property as written: '' when it is missing
Per100mVmtWritten(v) == IF v = Null THEN Blank ELSE v

NoManualDir ==
    /\ tpc = "start"
    /\ manual_dir = Null
    /\ tpc' = "aborted"
    /\ UNCHANGED <<manual_dir, results, csv_out, json_out, per_100m_vmt,
                   merge_vars, parse_vars, geo_vars, more_vars>>

ProcessAllFiles ==
    /\ tpc = "start"
    /\ manual_dir # Null
    /\ results' = process_all_files(manual_dir.files)
    /\ tpc' = "processed"
    /\ UNCHANGED <<manual_dir, csv_out, json_out, per_100m_vmt,
                   merge_vars, parse_vars, geo_vars, more_vars>>

WriteCsvFiles ==
    /\ tpc = "processed"
    /\ LET r == Rankings(results)
       IN  csv_out' = [per_car  |-> write_csv(r.per_car),
                       per_mile |-> write_csv(r.per_mile),
                       per_vmt  |-> write_csv(r.per_vmt)]
    /\ tpc' = "written"
    /\ UNCHANGED <<manual_dir, results, json_out, per_100m_vmt,
                   merge_vars, parse_vars, geo_vars, more_vars>>

MergeGeojsonForTop ==
    /\ tpc = "written"
    /\ LET r == Rankings(results)
       IN  json_out' = [f \in {"per_car", "per_mile", "per_vmt"} \X TopN |->
                           merge_geojson_for_top(manual_dir.files, r[f[1]], f[2])]
    /\ tpc' = "merged"
    /\ UNCHANGED <<manual_dir, results, csv_out, per_100m_vmt,
                   merge_vars, parse_vars, geo_vars, more_vars>>

\* new_merge_traffic.main on rows with the routes' crashes and miles driven,
\* over a years list as long as the crash period
NewMergePer100mVmt ==
    /\ tpc = "merged"
    /\ per_100m_vmt' =
          [i \in 1..Len(results) |->
              Per100mVmtWritten(Per100mVmt(results[i].crashes,
                                           results[i].MILES_DRIVEN, YEARS))]
    /\ tpc' = "compared"
    /\ UNCHANGED <<manual_dir, results, csv_out, json_out,
                   merge_vars, parse_vars, geo_vars, more_vars>>

NextTrips ==
    \/ NoManualDir
    \/ ProcessAllFiles
    \/ WriteCsvFiles
    \/ MergeGeojsonForTop
    \/ NewMergePer100mVmt

TripRow(sec, aadt, crashes) ==
    [SEC_LNT_MI |-> sec, TYC_AADT |-> aadt, TOTAL_CRASHES |-> crashes]

\* the row tables of a route file: no row, rows with and without crashes,
\* a row without length, a row of empty and unreadable cells
TripTables ==
    LET hit  == TripRow(<<"2">>, <<"1", "0", "0">>, <<"1">>)
        none == TripRow(<<"2">>, <<"1", "0", "0">>, <<"0">>)
        flat == TripRow(<<"0">>, <<"1", "0", "0">>, <<"2", ".", "0">>)
        bad  == TripRow(Blank, <<"x">>, Blank)
    IN  {<<>>, <<hit>>, <<none>>, <<flat>>, <<bad>>, <<hit, none>>, <<none, flat>>}

RouteNames == <<"a", "b", "c", "d">>

\* the k-th file of the directory: a table, with or without a geometry file
RouteFiles(k) ==
    {[name |-> RouteNames[k], rows |-> t, geojson |-> g] :
        t \in TripTables, g \in BOOLEAN}

ManualDirs ==
    UNION {{d \in [1..n -> UNION {RouteFiles(k) : k \in 1..n}] :
                \A k \in 1..n : d[k] \in RouteFiles(k)}
            : n \in 0..MaxRoutes}

InitTrips ==
    /\ manual_dir \in {Null} \cup {[files |-> d] : d \in ManualDirs}
    /\ results = <<>>
    /\ csv_out = <<>>
    /\ json_out = <<>>
    /\ per_100m_vmt = <<>>
    /\ tpc = "start"
    /\ MergeIdle
    /\ ParseIdle
    /\ GeoIdle
    /\ MoreIdle

SpecTrips == InitTrips /\ [][NextTrips]_vars

\* the float cells and properties that hold a ratio
RatioColumns == {"CARS_PER_ACCIDENT", "MILES_PER_ACCIDENT", "CRASHES_PER_100M_VMT"}

\* C12: nothing analyze_trips writes holds infinity: in per_car.csv,
\* per_mile.csv and per_vmt.csv and in the properties of every top_N.json
\* feature, the ratios of a route without crashes or without vehicle-miles
\* are blank or null.
C12_NoInfinityPersisted ==
    /\ csv_out # <<>> =>
          \A f \in DOMAIN csv_out : \A i \in 1..Len(csv_out[f]) :
              \A c \in RatioColumns : csv_out[f][i][c] # Inf
    /\ json_out # <<>> =>
          \A f \in DOMAIN json_out : \A i \in 1..Len(json_out[f]) :
              \A c \in RatioColumns : json_out[f][i][c] # Inf

\* C15: for every route, the rate of analyze_trips and the rate of
\* new_merge_traffic on the same crashes, miles driven and number of years
\* are both crashes * 100,000,000 / (MILES_DRIVEN * 365.25 * years) when
\* MILES_DRIVEN > 0, and both blank or null when it is not.
C15_SameRatePer100mVmt ==
    tpc = "compared" =>
        \A i \in 1..Len(results) :
            LET r  == results[i]
                md == r.MILES_DRIVEN
                k  == CHOOSE k \in 1..Len(csv_out.per_car) :
                          csv_out.per_car[k].segment_name = r.segment_name
                written == csv_out.per_car[k].CRASHES_PER_100M_VMT
            IN  IF md[1] > 0
                THEN LET rate == Rat(r.crashes * 4 * HundredMillion * md[2],
                                     md[1] * 1461 * YEARS)
                     IN  /\ written = <<"%.6f", rate>>
                         /\ per_100m_vmt[i] = rate
                ELSE /\ written = Blank
                     /\ per_100m_vmt[i] = Blank

\* C15 witness: a route with 1 crash and 200 miles driven a day, rate
\* 400000/1461 in both programs, beside a route without miles driven.
C15_Witness ==
    /\ tpc = "compared"
    /\ \E i, j \in 1..Len(results) :
          /\ results[i].crashes = 1
          /\ results[i].MILES_DRIVEN = <<200, 1>>
          /\ results[i].CRASHES_PER_100M_VMT = <<400000, 1461>>
          /\ per_100m_vmt[i] = <<400000, 1461>>
          /\ results[j].MILES_DRIVEN = <<0, 1>>
          /\ results[j].crashes > 0
          /\ per_100m_vmt[j] = Blank

---------------------------------------------------------------------------
(* The per-route export of create_simplified_average_output, and the        *)
(* rendering output of new_merge_traffic.main                                *)

\* fillna('').astype(str).str.strip() of a name column
NameCell(v) == IF v = Null \/ v = NaN THEN <<>> ELSE strip(v)

\* SIGNED_ROUTE if present, else ROUTE_NAME
get_route_name(row) ==
    IF row.SIGNED_ROUTE # <<>> THEN row.SIGNED_ROUTE ELSE row.ROUTE_NAME

\* export_segments_df of the table: both names stripped, ROUTE_FILE_NAME added
ExportFrame(df) ==
    [i \in 1..Len(df) |->
        LET row == [df[i] EXCEPT !.ROUTE_NAME = NameCell(df[i].ROUTE_NAME),
                                 !.SIGNED_ROUTE = NameCell(df[i].SIGNED_ROUTE)]
        IN  [SEGMENT_KEY     |-> row.SEGMENT_KEY,
             ROUTE_NAME      |-> row.ROUTE_NAME,
             SIGNED_ROUTE    |-> row.SIGNED_ROUTE,
             TYC_AADT        |-> row.TYC_AADT,
             DEPT_ID         |-> row.DEPT_ID,
             TOTAL_CRASHES   |-> row.TOTAL_CRASHES,
             ROUTE_FILE_NAME |-> get_route_name(row)]]

\* the non-empty route names in order of first appearance
UniqueRoutes(df) ==
    LET first == SelectSeq([i \in 1..Len(df) |-> i],
                     LAMBDA i : /\ df[i].ROUTE_FILE_NAME # <<>>
                                /\ \A j \in 1..(i - 1) :
                                      df[j].ROUTE_FILE_NAME # df[i].ROUTE_FILE_NAME)
    IN  [k \in 1..Len(first) |-> df[first[k]].ROUTE_FILE_NAME]

\* matched_crashes_full: one record per crash of a segment; a name the
\* matched section does not carry is not set in the record
CrashRecords(df) ==
    LET hit == SelectSeq(df, LAMBDA r : r.TOTAL_CRASHES > 0)
    IN  [i \in 1..Len(hit) |->
            [SEGMENT_KEY  |-> hit[i].SEGMENT_KEY,
             ROUTE_NAME   |-> hit[i].ROUTE_NAME,
             SIGNED_ROUTE |-> hit[i].SIGNED_ROUTE]]

\* a cell of the frame built from the records: NaN where a record lacks the
\* key, '' in a column no record has
RecordCell(records, i, col) ==
    IF records[i][col] # Null THEN records[i][col]
    ELSE IF \E j \in 1..Len(records) : records[j][col] # Null THEN NaN
    ELSE <<>>

\* crashes_df: None without matched crashes; ROUTE_FILE_NAME by get_route_name
\* on the unstripped cells (NaN is truthy)
CrashesFrame(records) ==
    IF records = <<>> THEN Null
    ELSE [i \in 1..Len(records) |->
            [SEGMENT_KEY     |-> records[i].SEGMENT_KEY,
             ROUTE_FILE_NAME |->
                 get_route_name([SIGNED_ROUTE |-> RecordCell(records, i, "SIGNED_ROUTE"),
                                 ROUTE_NAME   |-> RecordCell(records, i, "ROUTE_NAME")])]]

\* the characters replaced in a file name
Unsafe == {"/", "\\", ":", "*", "?", "\"", "<", ">", "|"}

\* mutant: the route name with each unsafe character kept apart
SafeRouteNameInjective(route_name) ==
    [i \in 1..Len(route_name) |->
        IF route_name[i] \in Unsafe THEN <<"_", route_name[i]>> ELSE route_name[i]]

safe_route_name(route_name) ==
    [i \in 1..Len(route_name) |->
        IF route_name[i] \in Unsafe THEN "_" ELSE route_name[i]]

out_path(route_name) == safe_route_name(route_name) \o <<".csv">>

geo_path(route_name) == safe_route_name(route_name) \o <<".geojson">>

crash_out_path(route_name) ==
    safe_route_name(route_name) \o <<"-", "c", "r", "a", "s", "h", "e", "s">>
        \o <<".csv">>

RouteRows(df, route_name) ==
    SelectSeq(df, LAMBDA r : r.ROUTE_FILE_NAME = route_name)

\* the feature of a row: the geometry of its key, None for a key without one
RouteFeature(row, geo_map) ==
    [SEGMENT_KEY |-> row.SEGMENT_KEY,
     geometry    |-> IF row.SEGMENT_KEY \in DOMAIN geo_map
                     THEN geo_map[row.SEGMENT_KEY].geometry ELSE Null]

TableFile(df, route_name) ==
    LET rows == RouteRows(df, route_name)
    IN  [kind |-> "table", route |-> route_name,
         rows |-> [i \in 1..Len(rows) |-> rows[i].SEGMENT_KEY]]

GeojsonFile(df, geo_map, route_name) ==
    LET rows == RouteRows(df, route_name)
    IN  [kind |-> "geojson", route |-> route_name,
         rows |-> [i \in 1..Len(rows) |-> RouteFeature(rows[i], geo_map)]]

RouteCrashes(cdf, route_name) ==
    IF cdf = Null THEN <<>> ELSE RouteRows(cdf, route_name)

CrashFile(cdf, route_name) ==
    LET rows == RouteCrashes(cdf, route_name)
    IN  [kind |-> "crashes", route |-> route_name,
         rows |-> [i \in 1..Len(rows) |-> rows[i].SEGMENT_KEY]]

\* matched_crashes_full: the record of each matched crash carries the key
\* and the names its match carries
MatchedCrashRecords(matches) ==
    [i \in 1..Len(matches) |->
        [SEGMENT_KEY  |-> matches[i].SEGMENT_KEY,
         ROUTE_NAME   |-> matches[i].ROUTE_NAME,
         SIGNED_ROUTE |-> matches[i].SIGNED_ROUTE]]

\* the key of a feature: identifiers stripped and upper-cased, mileposts as
\* they are written in the properties
FeatureKey(feat) ==
    NormalizeId(feat.properties.CORR_ID) \o Sep \o feat.properties.CORR_MP
        \o Sep \o feat.properties.CORR_ENDMP \o Sep
        \o NormalizeId(feat.properties.DEPT_ID)

\* mutant: a later feature replaces the one already held for its key
SetAlways(combined, key, feat) ==
    (key :> feat) @@ combined

\* if key not in combined: combined[key] = feat
SetIfAbsent(combined, key, feat) ==
    IF key \in DOMAIN combined THEN combined ELSE combined @@ (key :> feat)

RECURSIVE AddFeatures(_, _)
\* the loop over the features of one collection
AddFeatures(combined, features) ==
    IF features = <<>> THEN combined
    ELSE AddFeatures(SetIfAbsent(combined, FeatureKey(Head(features)), Head(features)),
                     Tail(features))

RECURSIVE LoadYears(_, _, _)
\* the loop over the years: a year without a readable collection is skipped
LoadYears(combined, ys, collections) ==
    IF ys = <<>> THEN combined
    ELSE LoadYears(IF Head(ys) \in DOMAIN collections
                   THEN AddFeatures(combined, collections[Head(ys)])
                   ELSE combined,
                   Tail(ys), collections)

load_tyc_geojson_map(ys, collections) == LoadYears(<<>>, ys, collections)

\* the partitions a worker is running for
Running == {r \in DOMAIN futures : futures[r] \in {"table", "geojson", "crashes"}}

Finished == {r \in DOMAIN futures : futures[r] \in {"returned", "raised"}}

\* mutant: a failure in one partition cancels the partitions still queued
AbortSiblings(fut, route_name, next) ==
    [r \in DOMAIN fut |->
        IF r = route_name THEN next
        ELSE IF fut[r] = "queued" THEN "returned" ELSE fut[r]]

\* the except clauses of process_route: the failure is printed, the worker
\* goes on with its next step, and no other partition is touched
LogAndSkip(fut, route_name, next) == [fut EXCEPT ![route_name] = next]

\* a write of process_route: the file, or an [ERROR] line when the path
\* cannot be written
Write(route_name, path, content, step, next) ==
    /\ epc = "fanout"
    /\ route_name \in DOMAIN futures
    /\ futures[route_name] = step
    /\ IF path \in fail_env.unwritable
       THEN /\ log' = log \cup {<<step, route_name>>}
            /\ futures' = LogAndSkip(futures, route_name, next)
            /\ UNCHANGED <<fs, writes>>
       ELSE /\ fs' = (path :> content) @@ fs
            /\ writes' = writes \cup {<<path, route_name>>}
            /\ futures' = [futures EXCEPT ![route_name] = next]
            /\ UNCHANGED log
    /\ UNCHANGED <<export_segments_df, crashes_df, geojson_map, unique_routes,
                   max_workers, fail_env, collected, epc, render,
                   merge_vars, parse_vars, geo_vars, trip_vars, new_vars>>

\* the tables are prepared and every route is submitted to the pool
SubmitRoutes ==
    /\ epc = "start"
    /\ unique_routes' = UniqueRoutes(export_segments_df)
    /\ futures' = [r \in {unique_routes'[k] : k \in 1..Len(unique_routes')} |-> "queued"]
    /\ epc' = "fanout"
    /\ UNCHANGED <<export_segments_df, crashes_df, geojson_map, max_workers,
                   fail_env, fs, writes, log, collected, render,
                   merge_vars, parse_vars, geo_vars, trip_vars, new_vars>>

\* a free worker takes a queued route
StartRoute(route_name) ==
    /\ epc = "fanout"
    /\ route_name \in DOMAIN futures
    /\ futures[route_name] = "queued"
    /\ Cardinality(Running) < max_workers
    /\ futures' = [futures EXCEPT ![route_name] = "table"]
    /\ UNCHANGED <<export_segments_df, crashes_df, geojson_map, unique_routes,
                   max_workers, fail_env, fs, writes, log, collected, epc, render,
                   merge_vars, parse_vars, geo_vars, trip_vars, new_vars>>

WriteTable(route_name) ==
    Write(route_name, out_path(route_name),
          TableFile(export_segments_df, route_name), "table", "geojson")

\* an exception outside the try blocks ends the worker; its future holds it
WorkerRaises(route_name) ==
    /\ epc = "fanout"
    /\ route_name \in DOMAIN futures
    /\ futures[route_name] = "geojson"
    /\ route_name \in fail_env.raising
    /\ futures' = [futures EXCEPT ![route_name] = "raised"]
    /\ UNCHANGED <<export_segments_df, crashes_df, geojson_map, unique_routes,
                   max_workers, fail_env, fs, writes, log, collected, epc, render,
                   merge_vars, parse_vars, geo_vars, trip_vars, new_vars>>

WriteGeojson(route_name) ==
    /\ route_name \notin fail_env.raising
    /\ Write(route_name, geo_path(route_name),
             GeojsonFile(export_segments_df, geojson_map, route_name),
             "geojson", "crashes")

WriteCrashes(route_name) ==
    /\ RouteCrashes(crashes_df, route_name) # <<>>
    /\ Write(route_name, crash_out_path(route_name),
             CrashFile(crashes_df, route_name), "crashes", "returned")

\* a route without matched crashes returns without a crash file
ReturnWithoutCrashes(route_name) ==
    /\ epc = "fanout"
    /\ route_name \in DOMAIN futures
    /\ futures[route_name] = "crashes"
    /\ RouteCrashes(crashes_df, route_name) = <<>>
    /\ futures' = [futures EXCEPT ![route_name] = "returned"]
    /\ UNCHANGED <<export_segments_df, crashes_df, geojson_map, unique_routes,
                   max_workers, fail_env, fs, writes, log, collected, epc, render,
                   merge_vars, parse_vars, geo_vars, trip_vars, new_vars>>

\* as_completed yields a finished future; the exception it holds is printed
Collect(route_name) ==
    /\ epc = "fanout"
    /\ route_name \in Finished \ collected
    /\ collected' = collected \cup {route_name}
    /\ log' = IF futures[route_name] = "raised"
              THEN log \cup {<<"worker", route_name>>} ELSE log
    /\ UNCHANGED <<export_segments_df, crashes_df, geojson_map, unique_routes,
                   max_workers, fail_env, futures, fs, writes, epc, render,
                   merge_vars, parse_vars, geo_vars, trip_vars, new_vars>>

\* every future was yielded: the pool is left
FanOutDone ==
    /\ epc = "fanout"
    /\ collected = DOMAIN futures
    /\ epc' = "done"
    /\ UNCHANGED <<export_segments_df, crashes_df, geojson_map, unique_routes,
                   max_workers, fail_env, futures, fs, writes, log, collected, render,
                   merge_vars, parse_vars, geo_vars, trip_vars, new_vars>>

\* new_merge_traffic.main: the rows left by the AADT and DEPT_ID filters
DeptExcluded(dept_id) ==
    LET d == NormalizeId(dept_id)
    IN  /\ d # <<>>
        /\ d[1] \in {"R", "L", "X", "U"}
        /\ d # <<"U", "-", "5", "8", "3", "2">>

Filtered(df) ==
    SelectSeq(df, LAMBDA r : /\ r.TYC_AADT # Null
                             /\ r.TYC_AADT[1] >= r.TYC_AADT[2]
                             /\ ~DeptExcluded(r.DEPT_ID))

\* new_merge_traffic.main: the rows that get a point and a line feature
Rendered(df, geo_map) ==
    SelectSeq(Filtered(df),
        LAMBDA r : /\ r.SEGMENT_KEY \in DOMAIN geo_map
                   /\ point_on_linestring(geo_map[r.SEGMENT_KEY].geometry,
                                          "start") # Null)

RenderPoints(df, geo_map) ==
    LET rows == Rendered(df, geo_map)
    IN  [i \in 1..Len(rows) |->
            [SEGMENT_KEY |-> rows[i].SEGMENT_KEY,
             geometry    |-> point_on_linestring(
                                 geo_map[rows[i].SEGMENT_KEY].geometry, "start")]]

RenderLines(df, geo_map) ==
    LET rows == Rendered(df, geo_map)
    IN  [i \in 1..Len(rows) |->
            [SEGMENT_KEY |-> rows[i].SEGMENT_KEY,
             geometry    |-> geo_map[rows[i].SEGMENT_KEY].geometry]]

\* new_merge_traffic.main on the same segment table and geometry map
NewMergeRender ==
    /\ epc = "done"
    /\ render' = [points |-> RenderPoints(export_segments_df, geojson_map),
                  lines  |-> RenderLines(export_segments_df, geojson_map)]
    /\ epc' = "rendered"
    /\ UNCHANGED <<export_segments_df, crashes_df, geojson_map, unique_routes,
                   max_workers, fail_env, futures, fs, writes, log, collected,
                   merge_vars, parse_vars, geo_vars, trip_vars, new_vars>>

NextExport ==
    \/ SubmitRoutes
    \/ \E r \in DOMAIN futures : StartRoute(r)
    \/ \E r \in DOMAIN futures : WriteTable(r)
    \/ \E r \in DOMAIN futures : WorkerRaises(r)
    \/ \E r \in DOMAIN futures : WriteGeojson(r)
    \/ \E r \in DOMAIN futures : WriteCrashes(r)
    \/ \E r \in DOMAIN futures : ReturnWithoutCrashes(r)
    \/ \E r \in DOMAIN futures : Collect(r)
    \/ FanOutDone
    \/ NewMergeRender

\* Inputs: segment rows with their raw name cells

ExportRow(key, signed, name, crashes) ==
    [SEGMENT_KEY |-> key, SIGNED_ROUTE |-> signed, ROUTE_NAME |-> name,
     TYC_AADT |-> <<100, 1>>, DEPT_ID |-> <<"P", "-", "1">>,
     TOTAL_CRASHES |-> crashes]

\* tables with one route, with routes whose names differ only in an unsafe
\* character, with a route named like another route's crash file, with a
\* segment without route, and with a third route beside them
ExportTables ==
    LET a    == ExportRow("k1", <<"A">>, Null, 1)
        a2   == ExportRow("k2", <<" ", "A", " ">>, <<"x">>, 0)
        ab   == ExportRow("k3", <<"A", "/", "B">>, Null, 1)
        a_b  == ExportRow("k4", Null, <<"A", "_", "B">>, 0)
        ac   == ExportRow("k5", Null, <<"A", "-", "c", "r", "a", "s", "h", "e", "s">>, 0)
        none == ExportRow("k6", Null, Null, 0)
        b    == ExportRow("k7", <<"B">>, <<"A">>, 1)
    IN  {<<>>, <<a, a2>>, <<a, none>>, <<ab, a_b>>, <<a, ac>>, <<a, b>>,
         <<a, ab, b>>, <<b, a_b, none>>}

LineAB == [type |-> "LineString", coordinates |-> <<<<0, 0>>, <<6, 0>>>>]

\* geometry maps: every key, and a map that lacks some keys and holds a
\* feature without geometry
GeojsonMaps ==
    {[k \in {"k1", "k2", "k3", "k4", "k5", "k6", "k7"} |->
        [properties |-> [OBJECTID |-> k], geometry |-> LineAB]],
     [k \in {"k1", "k4", "k6"} |->
        [properties |-> [OBJECTID |-> k],
         geometry   |-> IF k = "k4" THEN Null ELSE LineAB]]}

\* nothing fails; a table, a geometry or a crash file cannot be written; a
\* worker raises
FailEnvs(routes) ==
    {[unwritable |-> {}, raising |-> {}]}
        \cup {[unwritable |-> {f}, raising |-> {}] :
                f \in {out_path(routes[1]), geo_path(routes[1]),
                       crash_out_path(routes[1])}}
        \cup {[unwritable |-> {}, raising |-> {routes[1]}]}

PoolSizes == {2, 16}

InitExport ==
    /\ \E t \in ExportTables :
          /\ export_segments_df = ExportFrame(t)
          /\ crashes_df = CrashesFrame(CrashRecords(t))
          /\ fail_env \in IF UniqueRoutes(ExportFrame(t)) = <<>>
                          THEN {[unwritable |-> {}, raising |-> {}]}
                          ELSE FailEnvs(UniqueRoutes(ExportFrame(t)))
    /\ geojson_map \in GeojsonMaps
    /\ max_workers \in PoolSizes
    /\ unique_routes = <<>>
    /\ futures = <<>>
    /\ fs = <<>>
    /\ writes = {}
    /\ log = {}
    /\ collected = {}
    /\ epc = "start"
    /\ render = <<>>
    /\ MergeIdle
    /\ ParseIdle
    /\ GeoIdle
    /\ TripsIdle
    /\ MoreIdleBut("export")

SpecExport == InitExport /\ [][NextExport]_vars

\* the pool's threads and the collecting loop are scheduled: a step that can
\* be taken is taken
SpecExportFair == SpecExport /\ WF_vars(NextExport)

\* C22: no file under output/all_roads is written by two partitions: the
\* table, geometry and '-crashes' paths of different route names are pairwise
\* distinct after the file-name sanitization.
C22_PartitionsWriteDistinctFiles ==
    \A w1, w2 \in writes : w1[1] = w2[1] => w1[2] = w2[2]

\* what a partition has to write, given only its own paths and its own worker
OwnWritesDone(r) ==
    /\ out_path(r) \notin fail_env.unwritable => <<out_path(r), r>> \in writes
    /\ (r \notin fail_env.raising /\ geo_path(r) \notin fail_env.unwritable) =>
          <<geo_path(r), r>> \in writes
    /\ (r \notin fail_env.raising /\ RouteCrashes(crashes_df, r) # <<>>
            /\ crash_out_path(r) \notin fail_env.unwritable) =>
          <<crash_out_path(r), r>> \in writes

\* the failures of the run, one printed line each
Failures ==
    LET routes == DOMAIN futures
    IN  {<<"table", r>> : r \in {q \in routes : out_path(q) \in fail_env.unwritable}}
        \cup {<<"geojson", r>> : r \in {q \in routes :
                  q \notin fail_env.raising /\ geo_path(q) \in fail_env.unwritable}}
        \cup {<<"crashes", r>> : r \in {q \in routes :
                  /\ q \notin fail_env.raising
                  /\ RouteCrashes(crashes_df, q) # <<>>
                  /\ crash_out_path(q) \in fail_env.unwritable}}
        \cup {<<"worker", r>> : r \in routes \cap fail_env.raising}

\* C23: whatever fails in a partition (a table, geometry or crash file that
\* cannot be written, or an exception that leaves the worker), the fan-out
\* ends, in every order of completion, with every submitted partition
\* finished, every file written that the partition's own failure does not
\* concern, and each failure printed.
C23_FailureSkippedSiblingsComplete ==
    <>(/\ epc = "done"
       /\ DOMAIN futures = {unique_routes[k] : k \in 1..Len(unique_routes)}
       /\ Finished = DOMAIN futures
       /\ \A r \in DOMAIN futures : OwnWritesDone(r)
       /\ log = Failures)

\* C23 witness: the fan-out is over, the table of one route could not be
\* written or its worker raised, and another route has all its files.
C23_Witness ==
    /\ epc = "done"
    /\ \E r, q \in DOMAIN futures :
          /\ r # q
          /\ (<<"table", r>> \in log \/ <<"worker", r>> \in log)
          /\ <<"table", q>> \notin log
          /\ {<<out_path(q), q>>, <<geo_path(q), q>>} \subseteq writes
          /\ fs[geo_path(q)].route = q

\* the features of the geometry file of a route, when the route wrote it
RouteFeatures(route_name) ==
    IF geo_path(route_name) \in DOMAIN fs /\ fs[geo_path(route_name)].route = route_name
    THEN fs[geo_path(route_name)].rows ELSE <<>>

\* merge_traffic: the geometry file of the segment's route was written by it
RouteGeojsonWritten(row) ==
    /\ row.ROUTE_FILE_NAME # <<>>
    /\ geo_path(row.ROUTE_FILE_NAME) \in DOMAIN fs
    /\ fs[geo_path(row.ROUTE_FILE_NAME)].route = row.ROUTE_FILE_NAME

HasNullFeature(features, key) ==
    \E k \in 1..Len(features) :
        features[k].SEGMENT_KEY = key /\ features[k].geometry = Null

\* C24: a segment whose key is not in the geometry map is not dropped from
\* the rendering output: the geometry file of its route (merge_traffic) and
\* the line collection of new_merge_traffic, whose filters it passed, hold a
\* feature for it with null geometry.
C24_MissingGeometryKept ==
    epc = "rendered" =>
        \A i \in 1..Len(export_segments_df) :
            LET row == export_segments_df[i]
            IN  row.SEGMENT_KEY \notin DOMAIN geojson_map =>
                  /\ RouteGeojsonWritten(row) =>
                        HasNullFeature(RouteFeatures(row.ROUTE_FILE_NAME),
                                       row.SEGMENT_KEY)
                  /\ (\E k \in 1..Len(Filtered(export_segments_df)) :
                          Filtered(export_segments_df)[k] = row) =>
                        HasNullFeature(render.lines, row.SEGMENT_KEY)

---------------------------------------------------------------------------
(* The whole run of create_simplified_average_output: the pipeline, the    *)
(* geometry map and the per-route export, on the inputs that may be absent *)

\* geojson_map = load_tyc_geojson_map(years)
LoadTycGeojsonMap ==
    /\ pc = "done"
    /\ epc = "idle"
    /\ geojson_map' = load_tyc_geojson_map(years, tyc_geojson)
    /\ epc' = "geo"
    /\ UNCHANGED <<export_segments_df, crashes_df, unique_routes, max_workers,
                   fail_env, futures, fs, writes, log, collected, render,
                   merge_vars, parse_vars, geo_vars, trip_vars, new_vars>>

\* complete_df as it stands after the metrics, in catalog order
CompleteFrame ==
    CalculateMetrics(AggregateCrashes(base_segments_df, matched_sections), Len(years))

\* the tables the partitions read are derived, the pool is sized, and the
\* environment decides which writes will fail
PrepareExport ==
    /\ epc = "geo"
    /\ export_segments_df' = ExportFrame(CompleteFrame)
    /\ crashes_df' = CrashesFrame(MatchedCrashRecords(matched_sections))
    /\ max_workers' \in PoolSizes
    /\ fail_env' \in IF UniqueRoutes(ExportFrame(CompleteFrame)) = <<>>
                      THEN {[unwritable |-> {}, raising |-> {}]}
                      ELSE FailEnvs(UniqueRoutes(ExportFrame(CompleteFrame)))
    /\ epc' = "start"
    /\ UNCHANGED <<geojson_map, unique_routes, futures, fs, writes, log,
                   collected, render, merge_vars, parse_vars, geo_vars, trip_vars, new_vars>>

NextRun ==
    \/ LoadBaseMissing
    \/ LoadBase
    \/ AverageYearMissing
    \/ AverageYear
    \/ ReadCrashesMissing
    \/ BuildIndex
    \/ MatchCrash
    \/ Aggregate
    \/ LoadTycGeojsonMap
    \/ PrepareExport
    \/ SubmitRoutes
    \/ \E r \in DOMAIN futures : StartRoute(r)
    \/ \E r \in DOMAIN futures : WriteTable(r)
    \/ \E r \in DOMAIN futures : WorkerRaises(r)
    \/ \E r \in DOMAIN futures : WriteGeojson(r)
    \/ \E r \in DOMAIN futures : WriteCrashes(r)
    \/ \E r \in DOMAIN futures : ReturnWithoutCrashes(r)
    \/ \E r \in DOMAIN futures : Collect(r)
    \/ FanOutDone

\* Inputs of a whole run

MetaRow(route_id, b, e, name, signed) ==
    [ROUTE_ID |-> route_id, BEGIN_REFERENCE_POINT |-> b, END_REFERENCE_POINT |-> e,
     ROUTE_NAME |-> name, SIGNED_ROUTE |-> signed, SYSTEM |-> <<"N", "H", "S">>]

\* metadata tables: none; three rows of the route of corridor A, of which
\* the second and the third cover milepost 3; a row of the departmental
\* route without reference points; one row per kind of route; a table of
\* another route
OnSystemTables ==
    LET n1 == <<"N", "1">>
        n2 == <<"N", "2">>
        n3 == <<"N", "/", "3">>
        n4 == <<"N", "4">>
        s2 == <<" ", "U", "S", "2">>
    IN  {Null,
         <<MetaRow(<<"a", "n">>, <<0>>, <<1000>>, n1, NaN),
           MetaRow(<<" ", "a", "E">>, <<2000>>, <<3500>>, n2, s2),
           MetaRow(<<"A", "N">>, <<2500>>, <<4000>>, n3, NaN)>>,
         <<MetaRow(<<"p", "-", "1">>, Null, Null, n4, NaN)>>,
         <<MetaRow(<<"a", "n">>, <<0>>, <<1000>>, n1, NaN),
           MetaRow(<<"P", "-", "1">>, <<0>>, <<9000>>, n4, s2)>>,
         <<MetaRow(<<"Z", "9">>, <<0>>, <<9000>>, n4, NaN)>>}

RunBaseTables ==
    LET n == <<"1", "0", "0">>
    IN  {<<SegRow(<<"A">>, mp2, mp4, n), SegRow(<<"A">>, mpBad, mp3, n)>>,
         <<SegRow(<<"b", " ">>, mp2, mp3, n)>>,
         <<SegRow(<<"A">>, mp3, mp4, n), SegRow(<<"b", " ">>, mp2, mp4, n)>>}

RunCrashTables ==
    {NoFile, <<>>, <<CrashRow(<<" ", "a">>, mp3)>>,
     <<CrashRow(<<" ", "a">>, mp3), CrashRow(<<"B">>, mp3)>>}

\* a feature of a TYC collection; OBJECTID stands for its other properties
TycFeature(corr, mp, endmp, id, geom) ==
    [properties |-> [CORR_ID |-> corr, DEPT_ID |-> <<"p", "-", "1">>, CORR_MP |-> mp,
                     CORR_ENDMP |-> endmp, OBJECTID |-> id],
     geometry   |-> geom]

\* geometry collections: none at all; a key twice in the baseline year and
\* again in the next; only the last year; the two later years with one key
\* in both
TycCollections ==
    {<<>>,
     (BaseYear :> <<TycFeature(<<"A">>, mp2, mp4, 1, LineAB),
                    TycFeature(<<" ", "a">>, mp2, mp4, 2, Null)>>)
        @@ ((BaseYear - 1) :> <<TycFeature(<<"A">>, mp2, mp4, 3, LineAB),
                                TycFeature(<<"A">>, mp3, mp4, 4, LineAB)>>),
     ((BaseYear - 2) :> <<TycFeature(<<"A">>, mp2, mp4, 5, LineAB)>>),
     ((BaseYear - 1) :> <<TycFeature(<<"A">>, mp3, mp4, 6, LineAB)>>)
        @@ ((BaseYear - 2) :> <<TycFeature(<<"A">>, mp3, mp4, 7, Null),
                                TycFeature(<<"b">>, mp2, mp3, 8, LineAB)>>)}

InitRun ==
    \E c \in RunCrashTables, y \in YearOrders, o \in OnSystemTables,
       g \in TycCollections :
        \/ \E base \in RunBaseTables :
               StartWith((BaseYear :> base) @@ MatchYearFiles(base), c, y, o, g)
        \/ StartWith(MatchYearFiles(<<>>), c, y, o, g)

SpecRun == InitRun /\ [][NextRun]_vars

\* the run is one sequential program and the pool's threads are scheduled:
\* a step that can be taken is taken
SpecRunFair == SpecRun /\ WF_vars(NextRun)

\* nothing has been averaged, matched or written
NothingProduced ==
    /\ base_segments_df = <<>>
    /\ yi = 1
    /\ corridor_index = <<>>
    /\ matched_sections = <<>>
    /\ output_df = <<>>
    /\ final_results = <<>>
    /\ epc = "idle"
    /\ fs = <<>>

\* the run has ended before its end: by the early return or by an exception
HardFailure == pc \in {"aborted", "raised"}

\* C25: without the baseline-year table the run never gets past its first
\* step and nothing is averaged, matched or written; and the absence of the
\* baseline-year table is the only thing that ends a run early.
C25_BaselineSoleHardFailure ==
    /\ BaseYear \notin DOMAIN files => (pc \in {"load", "aborted"} /\ NothingProduced)
    /\ HardFailure => BaseYear \notin DOMAIN files

\* the absences C25 lists: a run ends early only without its baseline or its
\* crash table, whichever year file, metadata table or geometry collection
\* is absent
ListedAbsencesNeverAbort ==
    HardFailure => (BaseYear \notin DOMAIN files \/ crash_csv = NoFile)

\* a run that ends with the fan-out done although a year file, the metadata
\* table and every geometry collection are absent
ListedAbsencesReached ==
    /\ epc = "done"
    /\ \E k \in 1..Len(years) : years[k] \notin DOMAIN files
    /\ on_system_df = Null
    /\ tyc_geojson = <<>>
    /\ output_df # <<>>

\* the positions in the metadata table of the rows of route id
RouteRowsOf(id) ==
    {j \in 1..Len(on_system_df) :
        RouteBase(upper(strip(on_system_df[j].ROUTE_ID))) = id}

\* the candidate group of a segment: the rows of its corridor's route, or,
\* when there are none, of its departmental route
CandidateGroup(seg) ==
    IF RouteRowsOf(seg.CORR_ID) # {} THEN RouteRowsOf(seg.CORR_ID)
    ELSE RouteRowsOf(seg.DEPT_ID)

\* the metadata row j has both reference points and [begin, end] contains the
\* midpoint of the segment, whose mileposts both parse
ContainsMidpoint(j, seg) ==
    /\ seg.CORR_MP_FLOAT # Null
    /\ seg.CORR_ENDMP_FLOAT # Null
    /\ on_system_df[j].BEGIN_REFERENCE_POINT # Null
    /\ on_system_df[j].END_REFERENCE_POINT # Null
    /\ 2 * on_system_df[j].BEGIN_REFERENCE_POINT[1]
            <= seg.CORR_MP_FLOAT[1] + seg.CORR_ENDMP_FLOAT[1]
    /\ seg.CORR_MP_FLOAT[1] + seg.CORR_ENDMP_FLOAT[1]
            <= 2 * on_system_df[j].END_REFERENCE_POINT[1]

\* the row the claim selects for a segment with a non-empty group
Selected(seg) ==
    LET group == CandidateGroup(seg)
        hits  == {j \in group : ContainsMidpoint(j, seg)}
    IN  IF hits # {} THEN CHOOSE j \in hits : \A k \in hits : j <= k
        ELSE CHOOSE j \in group : \A k \in group : j <= k

MetadataOf(seg) ==
    [ROUTE_NAME |-> seg.ROUTE_NAME, SIGNED_ROUTE |-> seg.SIGNED_ROUTE,
     SYSTEM |-> seg.SYSTEM]

\* the columns of the catalog other than the three metadata columns
CatalogColumns ==
    {"CORR_ID", "DEPT_ID", "CORR_MP", "CORR_ENDMP", "TYC_AADT", "SEC_LNT_MI",
     "SEGMENT_KEY", "CORR_MP_FLOAT", "CORR_ENDMP_FLOAT"}

\* C26: once the catalog is loaded, a segment with a non-empty candidate
\* group carries the metadata of the first candidate in group order whose
\* [begin, end] contains the midpoint of its parsed mileposts, and of the
\* first candidate of the group when there is none or a milepost does not
\* parse; a segment without group carries no metadata; and the enrichment
\* leaves every other column as it was loaded.
C26_MetadataMatch ==
    (pc = "average" /\ yi = 2) =>
        /\ Len(base_segments_df) = Len(files[BaseYear])
        /\ \A i \in 1..Len(base_segments_df) :
            LET seg == base_segments_df[i]
            IN  /\ IF on_system_df # Null /\ CandidateGroup(seg) # {}
                   THEN MetadataOf(seg) = MetadataOf(on_system_df[Selected(seg)])
                   ELSE MetadataOf(seg) =
                            [ROUTE_NAME |-> Null, SIGNED_ROUTE |-> Null, SYSTEM |-> Null]
                /\ \A c \in CatalogColumns \ {"TYC_AADT"} :
                       seg[c] = LoadSegmentRow(files[BaseYear][i])[c]
                /\ seg.TYC_AADT = to_numeric(files[BaseYear][i].TYC_AADT)

\* C26 witness: a segment whose group has a first candidate that does not
\* contain the midpoint and two later ones that do, and a segment with an
\* unparsable milepost and a group, both enriched
C26_Witness ==
    /\ pc = "average" /\ yi = 2
    /\ on_system_df # Null
    /\ \E i \in 1..Len(base_segments_df) :
          LET seg == base_segments_df[i]
              group == CandidateGroup(seg)
          IN  /\ Cardinality({j \in group : ContainsMidpoint(j, seg)}) >= 2
              /\ \E j \in group : j < Selected(seg) /\ ~ContainsMidpoint(j, seg)
              /\ seg.ROUTE_NAME = on_system_df[Selected(seg)].ROUTE_NAME
    /\ \E i \in 1..Len(base_segments_df) :
          /\ base_segments_df[i].CORR_MP_FLOAT = Null
          /\ CandidateGroup(base_segments_df[i]) # {}
          /\ base_segments_df[i].ROUTE_NAME # Null

\* the positions in the years list of the years whose collection exists and
\* holds a feature of key k
YearsHolding(k) ==
    {p \in 1..Len(years) :
        /\ years[p] \in DOMAIN tyc_geojson
        /\ \E n \in 1..Len(tyc_geojson[years[p]]) :
              FeatureKey(tyc_geojson[years[p]][n]) = k}

\* every key of a feature of a collection of a listed year
HeldKeys ==
    UNION {{FeatureKey(tyc_geojson[years[p]][n]) : n \in 1..Len(tyc_geojson[years[p]])} :
             p \in {q \in 1..Len(years) : years[q] \in DOMAIN tyc_geojson}}

\* the first feature of key k in the collection of the year at position p
FirstOfKey(k, p) ==
    LET features == tyc_geojson[years[p]]
        n == CHOOSE n \in 1..Len(features) :
                /\ FeatureKey(features[n]) = k
                /\ \A m \in 1..(n - 1) : FeatureKey(features[m]) # k
    IN  features[n]

\* C27: once the geometry map is loaded its keys are the keys held by the
\* collections of the listed years that exist, and each key maps to the first
\* feature of that key in the collection of the earliest year, in list order,
\* that holds it; a year without collection contributes nothing.
C27_EarliestYearWins ==
    epc # "idle" =>
        /\ DOMAIN geojson_map = HeldKeys
        /\ \A k \in HeldKeys :
              LET p == CHOOSE p \in YearsHolding(k) : \A q \in YearsHolding(k) : p <= q
              IN  geojson_map[k] = FirstOfKey(k, p)

\* C27 witness: a loaded map with a key that two listed years hold, the
\* earlier one twice, and a run whose first listed year has no collection
C27_Witness ==
    /\ epc = "geo"
    /\ \/ \E k \in DOMAIN geojson_map :
             /\ Cardinality(YearsHolding(k)) >= 2
             /\ \E p \in YearsHolding(k) :
                   /\ \A q \in YearsHolding(k) : p <= q
                   /\ Cardinality({n \in 1..Len(tyc_geojson[years[p]]) :
                          FeatureKey(tyc_geojson[years[p]][n]) = k}) >= 2
       \/ /\ years[1] \notin DOMAIN tyc_geojson
          /\ \E k \in DOMAIN geojson_map :
                \E p, q \in YearsHolding(k) : p < q /\ years[p] < years[q]

---------------------------------------------------------------------------
(* The averaging loop as a whole *)

RECURSIVE AverageOver(_, _, _)
\* for year in years[1:]: a year without file is skipped
AverageOver(df, ys, year_files) ==
    IF ys = <<>> THEN df
    ELSE AverageOver(IF Head(ys) \in DOMAIN year_files
                     THEN AverageYearFrame(df, YearFrame(year_files[Head(ys)]))
                     ELSE df,
                     Tail(ys), year_files)

calculate_averaged_traffic(df, ys, year_files) ==
    AverageOver(AveragingProlog(df), Tail(ys), year_files)

\* the average and the count of years of every segment
Averages(df) ==
    [i \in 1..Len(df) |-> <<df[i].TYC_AADT, df[i].YEARS_WITH_DATA>>]

\* C28: when the averaging loop has ended, the average and YEARS_WITH_DATA
\* of every segment are what the loop gives for every other order of the
\* non-baseline years, year tables with null AADT or without the key
\* included; and the average is null exactly when the baseline AADT is.
C28_OrderOfYearsIrrelevant ==
    (pc = "match" /\ ci = 1) =>
        /\ \A o \in YearOrders :
              Averages(base_segments_df) =
                  Averages(calculate_averaged_traffic(
                              load_base_segments_2023(files[BaseYear], on_system_df),
                              o, files))
        /\ \A i \in 1..Len(base_segments_df) :
              base_segments_df[i].TYC_AADT = Null
                  <=> to_numeric(files[BaseYear][i].TYC_AADT) = Null

\* C28 witness: the loop has ended on a segment averaged over the baseline and
\* two more years with different counts, beside a year table with a null
\* count or without the key of a segment
C28_Witness ==
    /\ pc = "match" /\ ci = 1
    /\ \E i \in 1..Len(base_segments_df) :
          /\ base_segments_df[i].YEARS_WITH_DATA = 3
          /\ \E y1, y2 \in DOMAIN files \ {BaseYear} :
                /\ y1 # y2
                /\ \E m \in 1..Len(files[y1]), n \in 1..Len(files[y2]) :
                      /\ KeyEq(YearFrame(files[y1])[m].SEGMENT_KEY,
                               base_segments_df[i].SEGMENT_KEY)
                      /\ KeyEq(YearFrame(files[y2])[n].SEGMENT_KEY,
                               base_segments_df[i].SEGMENT_KEY)
                      /\ YearFrame(files[y1])[m].TYC_AADT # Null
                      /\ YearFrame(files[y2])[n].TYC_AADT # Null
                      /\ YearFrame(files[y1])[m].TYC_AADT # YearFrame(files[y2])[n].TYC_AADT
    /\ \E j \in 1..Len(base_segments_df) :
          base_segments_df[j].YEARS_WITH_DATA < 3
    /\ years # DefaultYears

---------------------------------------------------------------------------
(* new_merge_traffic.calculate_averaged_traffic *)

\* the rows idx_map can give for a key. A missing key of the catalog is looked
\* up by identity of the NaN object: nan_found tells whether the lookup finds
\* the missing keys of the year table
IdxMapRows(year_df, key, nan_found) ==
    IF key = NaN
    THEN IF nan_found THEN SelectSeq(year_df, LAMBDA r : r.SEGMENT_KEY = NaN) ELSE <<>>
    ELSE YearMatches(year_df, key)

\* one iteration of the loop over base_df: idx_map holds, for a key, the last
\* row of the year table with that key
NewMergeAverageRow(row, year_df, nan_found) ==
    LET rows == IdxMapRows(year_df, row.SEGMENT_KEY, nan_found)
    IN  IF /\ Len(rows) > 0
           /\ rows[Len(rows)].TYC_AADT # Null
           /\ row.TYC_AADT # Null
        THEN [row EXCEPT
                !.TYC_AADT = NewAverage(row.TYC_AADT, row.YEARS_WITH_DATA,
                                        rows[Len(rows)].TYC_AADT),
                !.YEARS_WITH_DATA = row.YEARS_WITH_DATA + 1]
        ELSE row

RECURSIVE NewMergeAverageOver(_, _, _, _)
\* for year in years[1:]: a year without file is skipped
NewMergeAverageOver(base_df, ys, year_files, nan_found) ==
    IF ys = <<>> THEN base_df
    ELSE NewMergeAverageOver(
            IF Head(ys) \in DOMAIN year_files
            THEN [i \in 1..Len(base_df) |->
                    NewMergeAverageRow(base_df[i], YearFrame(year_files[Head(ys)]),
                                       nan_found)]
            ELSE base_df,
            Tail(ys), year_files, nan_found)

\* new_merge_traffic: load_base_segments_2023 and calculate_averaged_traffic
\* on the files of the run
NewMergeAveragedTraffic ==
    /\ new_base_df = <<>>
    /\ BaseYear \in DOMAIN files
    /\ \E nan_found \in BOOLEAN :
          new_base_df' =
              <<NewMergeAverageOver(
                    AveragingProlog(load_base_segments_2023(files[BaseYear], Null)),
                    Tail(years), files, nan_found)>>
    /\ UNCHANGED <<merge_vars, parse_vars, geo_vars, trip_vars, export_vars>>

NextBoth ==
    \/ LoadBaseMissing
    \/ LoadBase
    \/ AverageYearMissing
    \/ AverageYear
    \/ BuildIndex
    \/ MatchCrash
    \/ Aggregate
    \/ NewMergeAveragedTraffic

\* the two programs on the same year files
SpecBoth == InitAvg /\ [][NextBoth]_vars

\* C29: on the same files the two averagers end with the same average and
\* the same YEARS_WITH_DATA for every segment.
C29_AveragersAgree ==
    (pc = "match" /\ ci = 1 /\ new_base_df # <<>>) =>
        Averages(base_segments_df) = Averages(new_base_df[1])

---------------------------------------------------------------------------
RECURSIVE SumTotalCrashes(_)
\* the sum of the TOTAL_CRASHES column
SumTotalCrashes(df) ==
    IF df = <<>> THEN 0 ELSE Head(df).TOTAL_CRASHES + SumTotalCrashes(Tail(df))

\* C30: in the finished table the TOTAL_CRASHES of all rows add up to the
\* number of matched crashes, whatever the baseline catalog, two rows with
\* the same SEGMENT_KEY included.
C30_CrashesConserved ==
    pc = "done" => SumTotalCrashes(output_df) = Len(matched_sections)

\* the catalogs without a repeated key, on which the counts do add up
CrashesConservedOnDistinctKeys ==
    (/\ pc = "done"
     /\ \A i, j \in 1..Len(base_segments_df) :
            i # j => base_segments_df[i].SEGMENT_KEY # base_segments_df[j].SEGMENT_KEY)
        => SumTotalCrashes(output_df) = Len(matched_sections)

====
